---- MODULE Spec2Model ----
(***************************************************************************)
(* Model of the Gemini CLI provider for the AI SDK: the request pipeline   *)
(* of GeminiLanguageModel (doGenerate / doStream), the stream transform    *)
(* that turns backend chunks into stream parts, and the pure mappers it    *)
(* uses.                                                                   *)
(*                                                                         *)
(* JavaScript objects are modelled as functions from field names to        *)
(* values: a field that is undefined is a field outside the DOMAIN.        *)
(* One action is one run-to-completion segment of the code, from one       *)
(* await to the next.                                                      *)
(***************************************************************************)
EXTENDS Integers, Sequences, FiniteSets, TLC

\* ------------------------------------------------------------------------
\* Bounds of the model
\* ------------------------------------------------------------------------

\* number of chunks the backend delivers before its sequence ends or raises
MaxChunks == 2

\* number of parts in candidates[0].content.parts of one chunk / response
MaxParts == 2

\* the number of requests made on one adapter instance
NumRequests == 2

\* the longest message list given to the message mapper
MaxMessages == 3

\* ------------------------------------------------------------------------
\* JavaScript objects
\* ------------------------------------------------------------------------

\* the object {} : no field is defined
EmptyObj == [k \in {} |-> TRUE]

\* o.k !== undefined
Has(o, k) == k \in DOMAIN o

\* o.k || dflt, for a numeric field: undefined and 0 both give dflt
OrDefault(o, k, dflt) == IF Has(o, k) /\ o[k] # 0 THEN o[k] ELSE dflt

\* every sequence over S of length 0..n
SeqUpTo(S, n) == UNION {[1..k -> S] : k \in 0..n}

Last(s) == s[Len(s)]

\* ------------------------------------------------------------------------
\* Errors
\* ------------------------------------------------------------------------

\* new Error('Request aborted') with name = 'AbortError'
\* (a message is the sequence of its fragments)
AbortError == [name |-> "AbortError", message |-> <<"Request aborted">>, shape |-> "raw"]

\* what the backend (generateContent, generateContentStream, the chunk
\* iterator) rejects with
BackendFailure == [name |-> "Error", message |-> <<"backend failure">>, shape |-> "raw"]

\* what initializeGeminiClient rejects with
ClientFailure == [name |-> "Error", message |-> <<"auth failed">>, shape |-> "raw"]

NoError == [name |-> "none", message |-> <<>>, shape |-> "raw"]

\* the error mapper keeps the content of the error and normalizes its shape
mapGeminiError(e) == [e EXCEPT !.shape = "normalized"]

\* initialize(): a failure of the client initializer is wrapped,
\* `Failed to initialize Gemini model: ${String(error)}`
InitError(cause) ==
  [name |-> "Error",
   message |-> <<"Failed to initialize Gemini model: ", cause.name, ": ">> \o cause.message,
   shape |-> "raw"]

\* throw new Error(text)
MappingError(text) == [name |-> "Error", message |-> text, shape |-> "raw"]

\* ------------------------------------------------------------------------
\* Finish reason
\* ------------------------------------------------------------------------

\* mapGeminiFinishReason(geminiReason): r is the object holding the optional
\* field finishReason (the candidate)
mapGeminiFinishReason_RecitationIsOther(r) ==
  IF ~Has(r, "finishReason") THEN [unified |-> "other"]
  ELSE CASE r.finishReason = "STOP" ->
              [unified |-> "stop", raw |-> r.finishReason]
         [] r.finishReason = "MAX_TOKENS" ->
              [unified |-> "length", raw |-> r.finishReason]
         [] r.finishReason = "SAFETY" ->
              [unified |-> "content-filter", raw |-> r.finishReason]
         [] OTHER ->
              [unified |-> "other", raw |-> r.finishReason]

mapGeminiFinishReason(r) ==
  IF ~Has(r, "finishReason") THEN [unified |-> "other"]
  ELSE CASE r.finishReason = "STOP" ->
              [unified |-> "stop", raw |-> r.finishReason]
         [] r.finishReason = "MAX_TOKENS" ->
              [unified |-> "length", raw |-> r.finishReason]
         [] r.finishReason \in {"SAFETY", "RECITATION"} ->
              [unified |-> "content-filter", raw |-> r.finishReason]
         [] r.finishReason = "OTHER" ->
              [unified |-> "other", raw |-> r.finishReason]
         [] OTHER ->
              [unified |-> "other", raw |-> r.finishReason]

\* mutant of DetermineFinishReason: the tool calls of the response are not
\* looked at
DetermineFinishReason_IgnoreToolCalls(hasToolCalls, candidate) ==
  mapGeminiFinishReason(candidate)

\* hasToolCalls ? {unified: 'tool-calls', raw: candidate.finishReason}
\*              : mapGeminiFinishReason(candidate.finishReason)
DetermineFinishReason(hasToolCalls, candidate) ==
  IF hasToolCalls
  THEN IF Has(candidate, "finishReason")
       THEN [unified |-> "tool-calls", raw |-> candidate.finishReason]
       ELSE [unified |-> "tool-calls"]
  ELSE mapGeminiFinishReason(candidate)

\* ------------------------------------------------------------------------
\* Generation config
\* ------------------------------------------------------------------------

\* the warning pushed for JSON mode without a schema
JsonWithoutSchemaWarning ==
  [type |-> "unsupported", feature |-> "responseFormat",
   details |-> "JSON response format without a schema is not supported. Treating as plain text. Provide a schema for structured output."]

\* level.toUpperCase(), on the level strings that occur
ToUpperCase(level) ==
  CASE level \in {"low", "LOW"} -> "LOW"
    [] level \in {"medium", "MEDIUM"} -> "MEDIUM"
    [] level \in {"high", "High", "HIGH"} -> "HIGH"
    [] level \in {"minimal", "MINIMAL"} -> "MINIMAL"
    [] level = "hihg" -> "HIHG"
    [] OTHER -> level

\* the values of the enum ThinkingLevel
ThinkingLevel == {"LOW", "MEDIUM", "HIGH", "MINIMAL"}

\* normalizeThinkingLevel(level): {} for undefined, else [thinkingLevel |-> the
\* enum value]
normalizeThinkingLevel(level) ==
  IF ToUpperCase(level) \in ThinkingLevel
  THEN [thinkingLevel |-> ToUpperCase(level)]
  ELSE EmptyObj

\* the object with the field k of o when o has it, else {}
Pick(o, k) == IF Has(o, k) THEN (k :> o[k]) ELSE EmptyObj

\* the object o without its field k: const {k: _, ...rest} = o
Without(o, k) == [x \in DOMAIN o \ {k} |-> o[x]]

\* {...a, ...b}
Spread(a, b) == b @@ a

\* buildThinkingConfig(input) (a level of the enum is a string as well)
buildThinkingConfig(input) ==
  (IF Has(input, "thinkingLevel")
   THEN normalizeThinkingLevel(input.thinkingLevel) ELSE EmptyObj)
  @@ Pick(input, "thinkingBudget")
  @@ Pick(input, "includeThoughts")

\* mapToolChoiceToGeminiFormat(toolChoice)
mapToolChoiceToGeminiFormat(toolChoice) ==
  CASE toolChoice.type = "auto" -> "AUTO"
    [] toolChoice.type = "none" -> "NONE"
    [] toolChoice.type \in {"required", "tool"} -> "ANY"
    [] OTHER -> "MODE_UNSPECIFIED"

\* mapGeminiToolConfig(options): {} for undefined, else [toolConfig |-> ...]
mapGeminiToolConfig(options) ==
  IF Has(options, "toolChoice")
  THEN [toolConfig |->
          [functionCallingConfig |->
             [mode |-> mapToolChoiceToGeminiFormat(options.toolChoice)]
             @@ (IF options.toolChoice.type = "tool"
                 THEN [allowedFunctionNames |-> <<options.toolChoice.toolName>>]
                 ELSE EmptyObj)]]
  ELSE EmptyObj

EffectiveOptionsThinking_KeepsInvalidLevel(options) ==
  Pick(options, "thinkingConfig")

\* the call-time thinkingConfig after the validation of its level: {} for
\* undefined, else [thinkingConfig |-> the object]
EffectiveOptionsThinking(options) ==
  IF ~Has(options, "thinkingConfig") THEN EmptyObj
  ELSE LET otc == options.thinkingConfig IN
       IF Has(otc, "thinkingLevel")
            /\ normalizeThinkingLevel(otc.thinkingLevel) = EmptyObj
       THEN LET rest == Without(otc, "thinkingLevel") IN
            IF DOMAIN rest # {} THEN [thinkingConfig |-> rest] ELSE EmptyObj
       ELSE [thinkingConfig |-> otc]

\* the thinkingConfig of the generation config: {} for undefined, else
\* [thinkingConfig |-> buildThinkingConfig(merged)]
ThinkingConfigOf(options, settings) ==
  LET effective == EffectiveOptionsThinking(options) IN
  IF Has(settings, "thinkingConfig") \/ Has(effective, "thinkingConfig")
  THEN [thinkingConfig |->
          buildThinkingConfig(
            Spread(IF Has(settings, "thinkingConfig")
                   THEN settings.thinkingConfig ELSE EmptyObj,
                   IF Has(effective, "thinkingConfig")
                   THEN effective.thinkingConfig ELSE EmptyObj))]
  ELSE EmptyObj

\* options.k ?? settings?.k
OptionOrSetting(options, settings, k) ==
  IF Has(options, k) THEN Pick(options, k) ELSE Pick(settings, k)

prepareGenerationConfig_JsonAlwaysStructured(options, settings) ==
  LET isJsonMode == Has(options, "responseFormat")
                      /\ options.responseFormat.type = "json"
      hasSchema  == isJsonMode /\ Has(options.responseFormat, "schema")
      mime       == IF isJsonMode THEN "application/json" ELSE "text/plain"
      config     == OptionOrSetting(options, settings, "temperature")
                    @@ OptionOrSetting(options, settings, "topP")
                    @@ OptionOrSetting(options, settings, "topK")
                    @@ OptionOrSetting(options, settings, "maxOutputTokens")
                    @@ Pick(options, "stopSequences")
                    @@ [responseMimeType |-> mime]
                    @@ (IF hasSchema
                        THEN [responseJsonSchema |-> options.responseFormat.schema]
                        ELSE EmptyObj)
                    @@ mapGeminiToolConfig(options)
                    @@ ThinkingConfigOf(options, settings)
  IN [generationConfig |-> config, warnings |-> <<>>]

\* prepareGenerationConfig(options, settings)
prepareGenerationConfig(options, settings) ==
  LET isJsonMode == Has(options, "responseFormat")
                      /\ options.responseFormat.type = "json"
      hasSchema  == isJsonMode /\ Has(options.responseFormat, "schema")
      warnings   == IF isJsonMode /\ ~hasSchema
                    THEN <<JsonWithoutSchemaWarning>> ELSE <<>>
      mime       == IF hasSchema THEN "application/json" ELSE "text/plain"
      config     == OptionOrSetting(options, settings, "temperature")
                    @@ OptionOrSetting(options, settings, "topP")
                    @@ OptionOrSetting(options, settings, "topK")
                    @@ OptionOrSetting(options, settings, "maxOutputTokens")
                    @@ Pick(options, "stopSequences")
                    @@ [responseMimeType |-> mime]
                    @@ (IF hasSchema
                        THEN [responseJsonSchema |-> options.responseFormat.schema]
                        ELSE EmptyObj)
                    @@ mapGeminiToolConfig(options)
                    @@ ThinkingConfigOf(options, settings)
  IN [generationConfig |-> config, warnings |-> warnings]

\* ------------------------------------------------------------------------
\* Schema cleaner
\* ------------------------------------------------------------------------
\* A JSON value is tagged by its JavaScript type: [str |-> s], [bool |-> b],
\* [obj |-> f] for an object with the fields of f, [arr |-> q] for an array.

Str(s) == [str |-> s]
Bool(b) == [bool |-> b]
Obj(f) == [obj |-> f]
Arr(q) == [arr |-> q]

IsObj(v) == "obj" \in DOMAIN v
IsArr(v) == "arr" \in DOMAIN v

\* typeof v === 'object' (no value of the model is null)
TypeofObject(v) == IsObj(v) \/ IsArr(v)

\* the truthiness of v
Truthy(v) ==
  IF "str" \in DOMAIN v THEN v.str # ""
  ELSE IF "bool" \in DOMAIN v THEN v.bool
  ELSE TRUE

\* the property key of the array index i (arrays have at most three items)
IndexKey(i) == CASE i = 1 -> "0" [] i = 2 -> "1" [] i = 3 -> "2" [] OTHER -> "3"

\* the own enumerable properties of an object or array: what {...v} and
\* Object.entries(v) see
Entries(v) ==
  IF IsArr(v)
  THEN [k \in {IndexKey(i) : i \in 1..Len(v.arr)} |->
          v.arr[CHOOSE i \in 1..Len(v.arr) : IndexKey(i) = k]]
  ELSE v.obj

DeletedKeys == {"$schema", "$ref", "$defs", "definitions"}

\* mutant of DeleteKeys: an else-if chain that deletes the first of the
\* keys that is present and leaves the others
DeleteKeys_FirstPresentOnly(f) ==
  IF Has(f, "$schema") THEN Without(f, "$schema")
  ELSE IF Has(f, "$ref") THEN Without(f, "$ref")
  ELSE IF Has(f, "$defs") THEN Without(f, "$defs")
  ELSE Without(f, "definitions")

\* delete cleaned.$schema; delete cleaned.$ref; delete cleaned.$defs;
\* delete cleaned.definitions
DeleteKeys(f) == [k \in DOMAIN f \ DeletedKeys |-> f[k]]

\* f with field k set to v
Set(f, k, v) == (k :> v) @@ f

\* cleanJsonSchema(schema)
RECURSIVE cleanJsonSchema(_)
cleanJsonSchema(schema) ==
  IF ~TypeofObject(schema) THEN schema
  ELSE
    LET c1 == DeleteKeys(Entries(schema))
        c2 == IF Has(c1, "properties") /\ Truthy(c1.properties)
                   /\ TypeofObject(c1.properties)
              THEN LET props == Entries(c1.properties) IN
                   Set(c1, "properties",
                       Obj([key \in DOMAIN props |-> cleanJsonSchema(props[key])]))
              ELSE c1
        c3 == IF Has(c2, "items") /\ Truthy(c2.items)
              THEN Set(c2, "items", cleanJsonSchema(c2.items))
              ELSE c2
        c4 == IF Has(c3, "additionalProperties")
                   /\ Truthy(c3.additionalProperties)
                   /\ TypeofObject(c3.additionalProperties)
              THEN Set(c3, "additionalProperties",
                       cleanJsonSchema(c3.additionalProperties))
              ELSE c3
        c5 == [k \in DOMAIN c4 |->
                 IF k \in {"allOf", "anyOf", "oneOf"} /\ IsArr(c4[k])
                 THEN Arr([i \in 1..Len(c4[k].arr) |->
                             cleanJsonSchema(c4[k].arr[i])])
                 ELSE c4[k]]
        c6 == IF Has(c5, "properties") /\ Truthy(c5.properties)
                   /\ ~Has(c5, "type")
              THEN Set(c5, "type", Str("object"))
              ELSE c5
    IN Obj(c6)

\* the schemas given to the cleaner
MaxSchemaDepth == 2

\* schemas without nested schema: a plain type, a reference, a reference
\* beside a type, a root with $schema and definitions, one with $defs
LeafSchemas ==
  { Obj([type |-> Str("string")]),
    Obj("$ref" :> Str("#/definitions/a")),
    Obj(("$ref" :> Str("#/$defs/a")) @@ [description |-> Str("a")]),
    Obj(("$schema" :> Str("http://json-schema.org/draft-07/schema#"))
        @@ [type |-> Str("object"),
            definitions |-> Obj([a |-> Obj([type |-> Str("string")])])]),
    Obj(("$defs" :> Obj([a |-> Obj([type |-> Str("number")])]))
        @@ ("$ref" :> Str("#/$defs/a"))) }

\* the schemas that hold the schema s under one keyword
Nest(s) ==
  { Obj([properties |-> Obj([name |-> s])]),
    Obj([type |-> Str("object"),
         properties |-> Obj([name |-> s, age |-> Obj([type |-> Str("number")])]),
         additionalProperties |-> Bool(FALSE)]),
    Obj([type |-> Str("array"), items |-> s]),
    Obj([type |-> Str("array"), items |-> Arr(<<s, Obj([type |-> Str("string")])>>)]),
    Obj([type |-> Str("object"), additionalProperties |-> s]),
    Obj([anyOf |-> Arr(<<s, Obj([type |-> Str("string")])>>)]),
    Obj([allOf |-> Arr(<<s>>)]),
    Obj([oneOf |-> Arr(<<Obj([type |-> Str("number")]), s>>)]),
    Obj([not |-> s]) }

RECURSIVE SchemasUpTo(_)
SchemasUpTo(depth) ==
  IF depth = 0 THEN LeafSchemas
  ELSE LET inner == SchemasUpTo(depth - 1)
       IN inner \cup UNION { Nest(s) : s \in inner }

Schemas == SchemasUpTo(MaxSchemaDepth)

\* ------------------------------------------------------------------------
\* Message mapper
\* ------------------------------------------------------------------------
\* A media type "image/png" is the pair <<"image", "png">>.  A file payload
\* is [kind |-> "URL"], [kind |-> "string", value |-> b64],
\* [kind |-> "Uint8Array", bytes |-> seq] or [kind |-> "other"].
\* A mapper result is either the mapped value or [throw |-> error].

OctetStream == <<"application", "octet-stream">>

\* `${mediaType}` of a media type pair
MediaTypeText(mt) == <<mt[1], "/", mt[2]>>

\* part.mediaType || 'application/octet-stream'
MediaTypeOf(part) ==
  IF Has(part, "mediaType") /\ part.mediaType # <<>> THEN part.mediaType ELSE OctetStream

\* Buffer.from(bytes).toString('base64'): the base64 text of a byte sequence
Base64(bytes) == [base64 |-> bytes]

\* mapFilePart(part)
mapFilePart(part) ==
  IF part.data.kind = "URL"
  THEN [throw |-> MappingError(<<"URL files are not supported by Gemini CLI Core. Please provide base64-encoded data.">>)]
  ELSE IF part.data.kind = "string"
  THEN [inlineData |-> [mimeType |-> MediaTypeOf(part), data |-> part.data.value]]
  ELSE IF part.data.kind = "Uint8Array"
  THEN [inlineData |-> [mimeType |-> MediaTypeOf(part), data |-> Base64(part.data.bytes)]]
  ELSE [throw |-> MappingError(<<"Unsupported file format">>)]

\* the body of the loop of mapUserMessage: the parts one message part adds
mapUserPart(part) ==
  IF part.type = "text" THEN [parts |-> <<[text |-> part.text]>>]
  ELSE IF part.type = "file"
  THEN LET mediaType == MediaTypeOf(part) IN
       IF mediaType[1] \in {"image", "audio", "video"}
            \/ mediaType = <<"application", "pdf">>
       THEN LET m == mapFilePart(part) IN
            IF Has(m, "throw") THEN m ELSE [parts |-> <<m>>]
       ELSE [throw |-> MappingError(<<"Unsupported file type: ">> \o MediaTypeText(mediaType))]
  ELSE [parts |-> <<>>]

\* the body of the loop of mapAssistantMessage
mapAssistantPart(part) ==
  IF part.type = "text" THEN [parts |-> <<[text |-> part.text]>>]
  ELSE IF part.type = "tool-call"
  THEN LET hasSignature ==
             /\ Has(part, "providerOptions")
             /\ Has(part.providerOptions, "gemini-cli")
             /\ Has(part.providerOptions["gemini-cli"], "thoughtSignature")
             /\ part.providerOptions["gemini-cli"].thoughtSignature # ""
           call == [name |-> part.toolName,
                    args |-> IF Has(part, "input") THEN part.input ELSE EmptyObj]
       IN [parts |-> <<[functionCall |-> call]
                       @@ (IF hasSignature
                           THEN [thoughtSignature |->
                                   part.providerOptions["gemini-cli"].thoughtSignature]
                           ELSE EmptyObj)>>]
  ELSE [parts |-> <<>>]

\* the texts of the text sub-parts of a content output, in order (they are
\* joined with '\n')
RECURSIVE TextsOf(_)
TextsOf(value) ==
  IF value = <<>> THEN <<>>
  ELSE (IF Head(value).type = "text" THEN <<Head(value).text>> ELSE <<>>)
       \o TextsOf(Tail(value))

\* the response object of one tool-result output.  A JSON value is
\* [json |-> kind, v |-> value] with kind object, array, string, number,
\* boolean or null.
ToolResultValue_AlwaysWraps(output) ==
  IF output.type \in {"text", "error-text"} THEN [result |-> output.value]
  ELSE IF output.type \in {"json", "error-json"}
  THEN [result |-> output.value]
  ELSE IF output.type = "execution-denied"
  THEN [result |-> IF Has(output, "reason") /\ output.reason # ""
                   THEN <<"[Execution denied", ": ", output.reason, "]">>
                   ELSE <<"[Execution denied", "]">>]
  ELSE IF output.type = "content"
  THEN [result |-> [joined |-> TextsOf(output.value)]]
  ELSE [result |-> "[Unknown output type]"]

ToolResultValue(output) ==
  IF output.type \in {"text", "error-text"} THEN [result |-> output.value]
  ELSE IF output.type \in {"json", "error-json"}
  THEN IF output.value.json = "object" THEN output.value.v
       ELSE [result |-> output.value]
  ELSE IF output.type = "execution-denied"
  THEN [result |-> IF Has(output, "reason") /\ output.reason # ""
                   THEN <<"[Execution denied", ": ", output.reason, "]">>
                   ELSE <<"[Execution denied", "]">>]
  ELSE IF output.type = "content"
  THEN [result |-> [joined |-> TextsOf(output.value)]]
  ELSE [result |-> "[Unknown output type]"]

\* the body of the loop over a tool message's content
mapToolPart(part) ==
  IF part.type = "tool-result"
  THEN [parts |-> <<[functionResponse |->
                       [name |-> part.toolName,
                        response |-> ToolResultValue(part.output)]]>>]
  ELSE [parts |-> <<>>]

\* the loop over message.content of mapUserMessage, mapAssistantMessage and
\* of the tool case: the mapped parts in order, or the first error thrown
RECURSIVE mapContent(_, _)
mapContent(role, content) ==
  IF content = <<>> THEN [parts |-> <<>>]
  ELSE LET h == IF role = "user" THEN mapUserPart(Head(content))
                ELSE IF role = "assistant" THEN mapAssistantPart(Head(content))
                ELSE mapToolPart(Head(content))
       IN IF Has(h, "throw") THEN h
          ELSE LET t == mapContent(role, Tail(content)) IN
               IF Has(t, "throw") THEN t ELSE [parts |-> h.parts \o t.parts]

\* mapUserMessage(message)
mapUserMessage(message) ==
  LET m == mapContent("user", message.content) IN
  IF Has(m, "throw") THEN m ELSE [role |-> "user", parts |-> m.parts]

\* mutant of mapAssistantMessage: the role of the message is kept
mapAssistantMessage_KeepsRole(message) ==
  LET m == mapContent("assistant", message.content) IN
  IF Has(m, "throw") THEN m ELSE [role |-> "assistant", parts |-> m.parts]

\* mapAssistantMessage(message)
mapAssistantMessage(message) ==
  LET m == mapContent("assistant", message.content) IN
  IF Has(m, "throw") THEN m ELSE [role |-> "model", parts |-> m.parts]

\* mutant of mapMessagesFrom: a system message does not replace the system
\* instruction of an earlier one
RECURSIVE mapMessagesFrom_FirstSystemWins(_, _, _)
mapMessagesFrom_FirstSystemWins(messages, i, acc) ==
  IF i > Len(messages) THEN acc
  ELSE LET message == messages[i] IN
    IF message.role = "system"
    THEN mapMessagesFrom_FirstSystemWins(messages, i + 1,
           IF Has(acc, "systemInstruction")
           THEN acc
           ELSE [contents |-> acc.contents,
                 systemInstruction |->
                   [role |-> "user", parts |-> <<[text |-> message.content]>>]])
    ELSE IF message.role \in {"user", "assistant"}
    THEN LET m == IF message.role = "user" THEN mapUserMessage(message)
                  ELSE mapAssistantMessage(message)
         IN IF Has(m, "throw") THEN m
            ELSE mapMessagesFrom_FirstSystemWins(messages, i + 1,
                   [acc EXCEPT !.contents = Append(@, m)])
    ELSE IF message.role = "tool"
    THEN mapMessagesFrom_FirstSystemWins(messages, i + 1,
           [acc EXCEPT !.contents =
              Append(@, [role |-> "user",
                         parts |-> mapContent("tool", message.content).parts])])
    ELSE mapMessagesFrom_FirstSystemWins(messages, i + 1, acc)

\* the loop of mapPromptToGeminiFormat from message i on, acc being
\* {contents, systemInstruction} so far
RECURSIVE mapMessagesFrom(_, _, _)
mapMessagesFrom(messages, i, acc) ==
  IF i > Len(messages) THEN acc
  ELSE LET message == messages[i] IN
    IF message.role = "system"
    THEN mapMessagesFrom(messages, i + 1,
           [contents |-> acc.contents,
            systemInstruction |->
              [role |-> "user", parts |-> <<[text |-> message.content]>>]])
    ELSE IF message.role \in {"user", "assistant"}
    THEN LET m == IF message.role = "user" THEN mapUserMessage(message)
                  ELSE mapAssistantMessage(message)
         IN IF Has(m, "throw") THEN m
            ELSE mapMessagesFrom(messages, i + 1,
                   [acc EXCEPT !.contents = Append(@, m)])
    ELSE IF message.role = "tool"
    THEN mapMessagesFrom(messages, i + 1,
           [acc EXCEPT !.contents =
              Append(@, [role |-> "user",
                         parts |-> mapContent("tool", message.content).parts])])
    ELSE mapMessagesFrom(messages, i + 1, acc)

\* mapPromptToGeminiFormat(options): {contents, systemInstruction?}, or
\* [throw |-> error]
mapPromptToGeminiFormat(options) ==
  mapMessagesFrom(options.prompt, 1, [contents |-> <<>>])

\* the messages the prompts given to the mapper on its own are made of: two
\* system messages, two user messages, an assistant message, a tool message
\* and a user message with a file part the mapper rejects
MessagePool ==
  << [role |-> "system", content |-> "Be brief"],
     [role |-> "system", content |-> "Be formal"],
     [role |-> "user", content |-> <<[type |-> "text", text |-> "Hi"]>>],
     [role |-> "user", content |-> <<[type |-> "text", text |-> "Bye"]>>],
     [role |-> "assistant", content |-> <<[type |-> "text", text |-> "Hello"]>>],
     [role |-> "tool",
      content |-> <<[type |-> "tool-result", toolName |-> "getWeather",
                     output |-> [type |-> "text", value |-> "sunny"]]>>],
     [role |-> "user",
      content |-> <<[type |-> "file", mediaType |-> <<"text", "plain">>,
                     data |-> [kind |-> "string", value |-> Base64(<<65>>)]]>>] >>

\* a prompt is chosen as the sequence of the places of its messages in the pool
MessageChoices == SeqUpTo(1..Len(MessagePool), MaxMessages)

PromptOf(choice) == [i \in 1..Len(choice) |-> MessagePool[choice[i]]]

\* ------------------------------------------------------------------------
\* Backend data
\* ------------------------------------------------------------------------

\* JSON.stringify(v): the JSON text of a value
JSONstringify(v) == [jsonText |-> v]

\* the parts the backend puts in candidates[0].content.parts: a text part
\* or a function call part
BackendParts ==
  { [text |-> "Hello"],
    [functionCall |-> [name |-> "getWeather", args |-> [city |-> "Oslo"]]] }

\* candidates[0].finishReason, when the backend sets it
FinishSignals == {"STOP", "SAFETY"}

\* usageMetadata, when the backend sets it (a count may be missing)
UsageMetadatas ==
  { [promptTokenCount |-> 1, candidatesTokenCount |-> 2],
    [candidatesTokenCount |-> 1] }

\* a chunk of the stream, and the response of generateContent: parts is
\* candidates[0].content.parts (empty when there is none), finishReason is
\* candidates[0].finishReason.  The backend sends content chunks, with up to
\* MaxParts parts, and chunks that report usage, with at most one text part;
\* either may carry the finish reason.
FinishFields == {EmptyObj} \cup {[finishReason |-> r] : r \in FinishSignals}

ContentChunks ==
  { [parts |-> ps] @@ f : ps \in SeqUpTo(BackendParts, MaxParts), f \in FinishFields }

UsageChunks ==
  { [parts |-> ps] @@ f @@ [usageMetadata |-> m] :
      ps \in {<<>>, <<[text |-> "Hello"]>>}, f \in FinishFields, m \in UsageMetadatas }

Chunks == ContentChunks \cup UsageChunks

\* ------------------------------------------------------------------------
\* Call options
\* ------------------------------------------------------------------------

HelloPrompt ==
  << [role |-> "system", content |-> "Be brief"],
     [role |-> "user", content |-> <<[type |-> "text", text |-> "Hello"]>>] >>

\* a file part of a media type outside image, audio, video and pdf
TextFilePrompt ==
  << [role |-> "user",
      content |-> <<[type |-> "file", mediaType |-> <<"text", "plain">>,
                     data |-> [kind |-> "string", value |-> Base64(<<65>>)]]>>] >>

\* an image given by URL
UrlFilePrompt ==
  << [role |-> "user",
      content |-> <<[type |-> "file", mediaType |-> <<"image", "png">>,
                     data |-> [kind |-> "URL"]]>>] >>

\* an image whose data is neither a string, a Uint8Array nor a URL
UnknownPayloadPrompt ==
  << [role |-> "user",
      content |-> <<[type |-> "file", mediaType |-> <<"image", "png">>,
                     data |-> [kind |-> "ArrayBuffer"]]>>] >>

Prompts == {HelloPrompt, TextFilePrompt, UrlFilePrompt, UnknownPayloadPrompt}

ResponseFormats ==
  { EmptyObj,
    [responseFormat |-> [type |-> "json"]],
    [responseFormat |-> [type |-> "json", schema |-> [type |-> "object"]]] }

\* the call options of a request (the abort signal is the variable aborted)
OptionsSet == { [prompt |-> p] @@ rf : p \in Prompts, rf \in ResponseFormats }

ModelId == "gemini-2.5-pro"

\* the requests that run on the one instance
Requests == 1..NumRequests

\* the locals of start(controller) when it is entered
NewLocals ==
  [events |-> <<>>, textPartId |-> EmptyObj, hasToolCalls |-> FALSE,
   totalInputTokens |-> 0, totalOutputTokens |-> 0, nextId |-> 1]

\* a request that has not been made: where it stands, its operation and
\* options, the client handle ensureInitialized gave it, its calls of the
\* backend, its warnings, what it rejected with, what doGenerate returned,
\* the locals of its stream transform and the chunks the backend gave it
NewRequest ==
  [pc |-> "idle", op |-> "none", options |-> [prompt |-> <<>>], client |-> 0,
   backendCalls |-> 0, warnings |-> <<>>, error |-> NoError, result |-> EmptyObj,
   st |-> NewLocals, chunks |-> <<>>]

\* ------------------------------------------------------------------------
\* State
\* ------------------------------------------------------------------------

VARIABLES
  \* the adapter instance
  contentGenerator,   \* this.contentGenerator && this.config are set
  initPromise,        \* this.initPromise: none, pending, fulfilled, rejected
  initCalls,          \* number of calls of initializeGeminiClient
  clientId,           \* which of these calls built this.contentGenerator, 0 if none
  settings,           \* this.settings, {} when the instance was given none
  \* the request
  op,                 \* "none", "generate" (doGenerate) or "stream" (doStream)
  options,            \* the call options
  pc,                 \* where the request stands
  aborted,            \* options.abortSignal.aborted
  warnings,           \* the warnings of prepareGenerationConfig
  backendCalls,       \* number of calls of generateContent / generateContentStream
  request,            \* {} or the request given to the backend
  nextId,             \* randomUUID(): the next fresh identifier
  error,              \* what the call rejected with, or the stream was errored with
  result,             \* what doGenerate returned
  \* the stream transform (locals of start(controller))
  events,             \* the parts enqueued on the controller, in order
  totalInputTokens,
  totalOutputTokens,
  textPartId,         \* {} while undefined, else [id |-> the id]
  hasToolCalls,
  \* history of the backend's side, for stating properties
  pulled,             \* number of chunks the backend has delivered
  fcSeen,             \* a processed chunk held a function call part
  usageSeen,          \* usageMetadata of the last processed chunk that had one
  usageChunks,        \* number of processed chunks that had usageMetadata
  lastSignal,         \* {} or [finishReason |-> r] of the last processed chunk
  signalSeen,         \* a processed chunk had a finishReason
  lastResponse,       \* {} or [response |-> r], the response given to doGenerate
  abortedAt,          \* the pc at which the abort signal was triggered, or "never"
  \* the consumer of the stream (a reader of the ReadableStream)
  received,           \* number of parts the consumer has received
  reading,            \* its last read(): none, pending, value, done, failed
  \* several requests on the one instance
  requests,           \* request number -> the request's state
  \* the message mapper on its own
  mapInput,           \* the options given to mapPromptToGeminiFormat
  mapOutput,          \* {} or [value |-> what it returned]
  schema,             \* the schema given to cleanJsonSchema
  cleanings,          \* the results of cleaning it once, twice, ...
  \* the tool mapper
  converters          \* what z.toJSONSchema and zod-to-json-schema do here

instanceVars == <<contentGenerator, initPromise, initCalls, clientId, settings>>
requestVars == <<op, options, pc, warnings, backendCalls, request, nextId, error,
                 result>>
streamVars == <<events, totalInputTokens, totalOutputTokens, textPartId, hasToolCalls>>
historyVars == <<pulled, fcSeen, usageSeen, usageChunks, lastSignal, signalSeen,
                 lastResponse>>
readerVars == <<received, reading>>
cleanerVars == <<schema, cleanings>>
mapperVars == <<mapInput, mapOutput, cleanerVars, converters>>
vars == <<instanceVars, requestVars, streamVars, historyVars, aborted, abortedAt,
          readerVars, requests, mapperVars>>

NoOptions == [prompt |-> <<>>]

\* an installation with Zod v4, whose z.toJSONSchema works
NativeConverter == [toJSONSchema |-> "works", zodToJsonSchema |-> "absent"]

\* the instance after construction (but for its settings), no request made
InstanceInit ==
  /\ contentGenerator = FALSE
  /\ initPromise = "none"
  /\ initCalls = 0
  /\ clientId = 0
  /\ op = "none"
  /\ options = NoOptions
  /\ pc = "idle"
  /\ aborted = FALSE
  /\ warnings = <<>>
  /\ backendCalls = 0
  /\ request = EmptyObj
  /\ nextId = 1
  /\ error = NoError
  /\ result = EmptyObj
  /\ events = <<>>
  /\ totalInputTokens = 0
  /\ totalOutputTokens = 0
  /\ textPartId = EmptyObj
  /\ hasToolCalls = FALSE
  /\ pulled = 0
  /\ fcSeen = FALSE
  /\ usageSeen = EmptyObj
  /\ usageChunks = 0
  /\ lastSignal = EmptyObj
  /\ signalSeen = FALSE
  /\ lastResponse = EmptyObj
  /\ abortedAt = "never"
  /\ received = 0
  /\ reading = "none"
  /\ requests = [r \in Requests |-> NewRequest]

Init ==
  /\ InstanceInit
  /\ settings = EmptyObj
  /\ mapInput = NoOptions
  /\ mapOutput = EmptyObj
  /\ schema = EmptyObj
  /\ cleanings = <<>>
  /\ converters = NativeConverter

\* ------------------------------------------------------------------------
\* The stream transform: start(controller) of the ReadableStream of doStream
\* ------------------------------------------------------------------------
\* st is the record of the transform's locals: events, textPartId,
\* hasToolCalls, totalInputTokens, totalOutputTokens, nextId.

\* controller.enqueue(e)
Enqueue(st, e) == [st EXCEPT !.events = Append(@, e)]

\* mutant of ToolCallEvent: the provider metadata is always there, with an
\* empty signature when the part has none
ToolCallEvent_AlwaysMetadata(part, id) ==
  [type |-> "tool-call",
   toolCallId |-> id,
   toolName |-> IF Has(part.functionCall, "name") THEN part.functionCall.name ELSE "",
   input |-> JSONstringify(IF Has(part.functionCall, "args")
                           THEN part.functionCall.args ELSE EmptyObj),
   providerMetadata |->
     ("gemini-cli" :> [thoughtSignature |->
                         IF Has(part, "thoughtSignature")
                         THEN part.thoughtSignature ELSE ""])]

\* the tool-call part enqueued for a function call part
ToolCallEvent(part, id) ==
  [type |-> "tool-call",
   toolCallId |-> id,
   toolName |-> IF Has(part.functionCall, "name") THEN part.functionCall.name ELSE "",
   input |-> JSONstringify(IF Has(part.functionCall, "args")
                           THEN part.functionCall.args ELSE EmptyObj)]
  @@ (IF Has(part, "thoughtSignature") /\ part.thoughtSignature # ""
      THEN [providerMetadata |->
              ("gemini-cli" :> [thoughtSignature |-> part.thoughtSignature])]
      ELSE EmptyObj)

\* mutant of StreamPart: a text block is opened for every text part
StreamPart_AlwaysStart(st, part) ==
  IF Has(part, "text") /\ part.text # ""
  THEN LET opened ==
             Enqueue([st EXCEPT !.textPartId = [id |-> st.nextId],
                                !.nextId = @ + 1],
                     [type |-> "text-start", id |-> st.nextId])
       IN Enqueue(opened, [type |-> "text-delta", id |-> opened.textPartId.id,
                           delta |-> part.text])
  ELSE IF Has(part, "functionCall")
  THEN Enqueue([st EXCEPT !.hasToolCalls = TRUE, !.nextId = @ + 1],
               ToolCallEvent(part, st.nextId))
  ELSE st

\* mutant of StreamPart: a function call part closes the open text block
\* before its tool-call part is enqueued
StreamPart_ToolCallClosesBlock(st, part) ==
  IF Has(part, "text") /\ part.text # ""
  THEN LET opened ==
             IF st.textPartId = EmptyObj
             THEN Enqueue([st EXCEPT !.textPartId = [id |-> st.nextId],
                                     !.nextId = @ + 1],
                          [type |-> "text-start", id |-> st.nextId])
             ELSE st
       IN Enqueue(opened, [type |-> "text-delta", id |-> opened.textPartId.id,
                           delta |-> part.text])
  ELSE IF Has(part, "functionCall")
  THEN LET closed ==
             IF st.textPartId # EmptyObj
             THEN [Enqueue(st, [type |-> "text-end", id |-> st.textPartId.id])
                     EXCEPT !.textPartId = EmptyObj]
             ELSE st
       IN Enqueue([closed EXCEPT !.hasToolCalls = TRUE, !.nextId = @ + 1],
                  ToolCallEvent(part, closed.nextId))
  ELSE st

\* the body of `for (const part of content.parts)`
StreamPart(st, part) ==
  IF Has(part, "text") /\ part.text # ""
  THEN LET opened ==
             IF st.textPartId = EmptyObj
             THEN Enqueue([st EXCEPT !.textPartId = [id |-> st.nextId],
                                     !.nextId = @ + 1],
                          [type |-> "text-start", id |-> st.nextId])
             ELSE st
       IN Enqueue(opened, [type |-> "text-delta", id |-> opened.textPartId.id,
                           delta |-> part.text])
  ELSE IF Has(part, "functionCall")
  THEN Enqueue([st EXCEPT !.hasToolCalls = TRUE, !.nextId = @ + 1],
               ToolCallEvent(part, st.nextId))
  ELSE st

\* mutant of StreamParts: the parts of a chunk are processed last to first
RECURSIVE StreamParts_LastFirst(_, _)
StreamParts_LastFirst(st, parts) ==
  IF parts = <<>> THEN st
  ELSE StreamPart(StreamParts_LastFirst(st, Tail(parts)), Head(parts))

\* the loop over content.parts
RECURSIVE StreamParts(_, _)
StreamParts(st, parts) ==
  IF parts = <<>> THEN st
  ELSE StreamParts(StreamPart(st, Head(parts)), Tail(parts))

\* mutant of UpdateTokenCounts: the counts of a chunk are added to the totals
UpdateTokenCounts_Accumulate(st, chunk) ==
  IF Has(chunk, "usageMetadata")
  THEN [st EXCEPT
          !.totalInputTokens = @ + OrDefault(chunk.usageMetadata, "promptTokenCount", 0),
          !.totalOutputTokens = @ + OrDefault(chunk.usageMetadata, "candidatesTokenCount", 0)]
  ELSE st

\* `if (chunk.usageMetadata) { ... }`
UpdateTokenCounts(st, chunk) ==
  IF Has(chunk, "usageMetadata")
  THEN [st EXCEPT
          !.totalInputTokens = OrDefault(chunk.usageMetadata, "promptTokenCount", 0),
          !.totalOutputTokens = OrDefault(chunk.usageMetadata, "candidatesTokenCount", 0)]
  ELSE st

\* the usage object of the finish part and of the result of doGenerate
UsageOf(inputTokens, outputTokens) ==
  [inputTokens |-> [total |-> inputTokens],
   outputTokens |-> [total |-> outputTokens]]

\* `if (candidate?.finishReason) { ... }`
StreamFinish(st, chunk) ==
  IF Has(chunk, "finishReason") /\ chunk.finishReason # ""
  THEN LET closed ==
             IF st.textPartId # EmptyObj
             THEN Enqueue(st, [type |-> "text-end", id |-> st.textPartId.id])
             ELSE st
           finishReason == DetermineFinishReason(closed.hasToolCalls, chunk)
           meta == Enqueue([closed EXCEPT !.nextId = @ + 1],
                           [type |-> "response-metadata", id |-> closed.nextId,
                            modelId |-> ModelId])
       IN Enqueue(meta, [type |-> "finish", finishReason |-> finishReason,
                         usage |-> UsageOf(meta.totalInputTokens,
                                           meta.totalOutputTokens)])
  ELSE st

\* the body of `for await (const chunk of streamResponse)` after the abort
\* check
StreamChunk(st, chunk) ==
  StreamFinish(StreamParts(UpdateTokenCounts(st, chunk), chunk.parts), chunk)

\* the locals of the transform as a record, and back
Locals ==
  [events |-> events, textPartId |-> textPartId, hasToolCalls |-> hasToolCalls,
   totalInputTokens |-> totalInputTokens, totalOutputTokens |-> totalOutputTokens,
   nextId |-> nextId]

SetLocals(st) ==
  /\ events' = st.events
  /\ textPartId' = st.textPartId
  /\ hasToolCalls' = st.hasToolCalls
  /\ totalInputTokens' = st.totalInputTokens
  /\ totalOutputTokens' = st.totalOutputTokens
  /\ nextId' = st.nextId

\* a chunk or response holds a function call part
HoldsFunctionCall(chunk) ==
  \E i \in 1..Len(chunk.parts) : Has(chunk.parts[i], "functionCall")

\* ------------------------------------------------------------------------
\* The content of a doGenerate result
\* ------------------------------------------------------------------------
\* g is the record of the locals content, hasToolCalls and nextId.

\* mutant of GeneratePart: every tool call of a result gets the same id
GeneratePart_SameId(g, part) ==
  IF Has(part, "text") /\ part.text # ""
  THEN [g EXCEPT !.content = Append(@, [type |-> "text", text |-> part.text])]
  ELSE IF Has(part, "functionCall")
  THEN [g EXCEPT !.hasToolCalls = TRUE,
                 !.content = Append(@, ToolCallEvent(part, g.nextId))]
  ELSE g

\* the body of `for (const part of responseContent.parts)` of doGenerate
GeneratePart(g, part) ==
  IF Has(part, "text") /\ part.text # ""
  THEN [g EXCEPT !.content = Append(@, [type |-> "text", text |-> part.text])]
  ELSE IF Has(part, "functionCall")
  THEN [g EXCEPT !.hasToolCalls = TRUE,
                 !.nextId = @ + 1,
                 !.content = Append(@, ToolCallEvent(part, g.nextId))]
  ELSE g

RECURSIVE GenerateParts(_, _)
GenerateParts(g, parts) ==
  IF parts = <<>> THEN g
  ELSE GenerateParts(GeneratePart(g, Head(parts)), Tail(parts))

\* what doGenerate returns for a backend response (rawCall and rawResponse
\* left out), with the next fresh identifier
GenerateResult(response, w, id) ==
  LET g == GenerateParts([content |-> <<>>, hasToolCalls |-> FALSE, nextId |-> id],
                         response.parts)
      usageMetadata == IF Has(response, "usageMetadata")
                       THEN response.usageMetadata ELSE EmptyObj
  IN [value |->
        [content |-> g.content,
         finishReason |-> DetermineFinishReason(g.hasToolCalls, response),
         usage |-> UsageOf(OrDefault(usageMetadata, "promptTokenCount", 0),
                           OrDefault(usageMetadata, "candidatesTokenCount", 0)),
         response |-> [id |-> g.nextId, modelId |-> ModelId],
         warnings |-> w],
      nextId |-> g.nextId + 1]

\* ------------------------------------------------------------------------
\* Actions
\* ------------------------------------------------------------------------

Terminal == {"rejected", "returned", "closed", "errored"}

\* the caller triggers the abort signal
Abort ==
  /\ ~aborted
  /\ pc \notin Terminal
  /\ aborted' = TRUE
  /\ abortedAt' = pc
  /\ UNCHANGED <<instanceVars, requestVars, streamVars, historyVars,
                 readerVars, requests, mapperVars>>

\* the request fails: the catch block of doGenerate / doStream rethrows
\* mapGeminiError(e)
Reject(e) ==
  /\ pc' = "rejected"
  /\ error' = mapGeminiError(e)

\* mutant of Call: a call that finds a failed initialization starts a new one
Call_RetriesFailedInit(o, opts) ==
  /\ pc = "idle"
  /\ op' = o
  /\ options' = opts
  /\ IF contentGenerator
     THEN UNCHANGED <<initPromise, initCalls>>
     ELSE IF initPromise \in {"none", "rejected"}
     THEN /\ initPromise' = "pending"
          /\ initCalls' = initCalls + 1
     ELSE UNCHANGED <<initPromise, initCalls>>
  /\ pc' = "awaitInit"
  /\ UNCHANGED <<contentGenerator, clientId, settings, warnings, backendCalls, request, nextId, error,
                 result, streamVars, historyVars, aborted, abortedAt,
                 readerVars, requests, mapperVars>>

\* doGenerate(options) / doStream(options) is called and runs up to the await
\* in ensureInitialized
Call(o, opts) ==
  /\ pc = "idle"
  /\ op' = o
  /\ options' = opts
  /\ IF contentGenerator
     THEN UNCHANGED <<initPromise, initCalls>>
     ELSE IF initPromise = "none"
     THEN /\ initPromise' = "pending"
          /\ initCalls' = initCalls + 1
     ELSE UNCHANGED <<initPromise, initCalls>>
  /\ pc' = "awaitInit"
  /\ UNCHANGED <<contentGenerator, clientId, settings, warnings, backendCalls, request, nextId, error,
                 result, streamVars, historyVars, aborted, abortedAt,
                 readerVars, requests, mapperVars>>

\* initializeGeminiClient resolves: initialize() stores the client
InitializeResolves ==
  /\ initPromise = "pending"
  /\ initPromise' = "fulfilled"
  /\ contentGenerator' = TRUE
  /\ clientId' = initCalls
  /\ UNCHANGED <<initCalls, settings, requestVars, streamVars, historyVars, aborted, abortedAt,
                 readerVars, requests, mapperVars>>

\* initializeGeminiClient rejects: initialize() throws the wrapped error
InitializeRejects ==
  /\ initPromise = "pending"
  /\ initPromise' = "rejected"
  /\ UNCHANGED <<contentGenerator, initCalls, clientId, settings, requestVars, streamVars,
                 historyVars, aborted, abortedAt, readerVars, requests, mapperVars>>

\* ------------------------------------------------------------------------
\* Tool mapper
\* ------------------------------------------------------------------------
\* A JSON schema is a value of the schema cleaner (Obj, Str, ...); a Zod
\* schema is an object with _def, here that of z.object(shape) with the
\* type of each property.

\* isJsonSchema(obj) and isZodSchema(obj)
isJsonSchema(obj) ==
  IsObj(obj) /\ DOMAIN obj.obj \cap {"type", "properties", "$schema"} # {}

isZodSchema(obj) == Has(obj, "_def")

\* what a converter makes of z.object(shape): the object schema with one
\* property for each key of the shape, under the draft the converter names
ZodObjectSchema(zodSchema, draft) ==
  Obj(("$schema" :> Str(draft))
      @@ [type |-> Str("object"),
          properties |-> Obj([k \in DOMAIN zodSchema._def.shape |->
                                Obj([type |-> Str(zodSchema._def.shape[k])])]),
          additionalProperties |-> Bool(FALSE)])

\* the schema convertZodToJsonSchema returns when no converter is there
BareObjectSchema == Obj([type |-> Str("object")])

\* convertZodToJsonSchema(zodSchema): z.toJSONSchema when it is there and
\* does not throw, else zodToJsonSchema of the module when it loads and does
\* not throw, else console.warn and {type: 'object'}
convertZodToJsonSchema(zodSchema) ==
  IF converters.toJSONSchema = "works"
  THEN ZodObjectSchema(zodSchema, "https://json-schema.org/draft/2020-12/schema")
  ELSE IF converters.zodToJsonSchema = "works"
  THEN ZodObjectSchema(zodSchema, "http://json-schema.org/draft-07/schema#")
  ELSE BareObjectSchema

\* convertToolParameters(parameters)
convertToolParameters(parameters) ==
  IF isJsonSchema(parameters) THEN cleanJsonSchema(parameters)
  ELSE IF isZodSchema(parameters)
  THEN cleanJsonSchema(convertZodToJsonSchema(parameters))
  ELSE parameters

\* mapToolsToGeminiFormat(tools)
mapToolsToGeminiFormat(tools) ==
  << [functionDeclarations |->
        [i \in 1..Len(tools) |->
           [name |-> tools[i].name,
            parameters |-> convertToolParameters(tools[i].inputSchema)]
           @@ Pick(tools[i], "description")] ] >>

IsFunctionTool(tool) == tool.type = "function"

\* `let tools; if (options.tools) { ... }`: {} while tools is undefined
MappedTools(opts) ==
  IF ~Has(opts, "tools") THEN EmptyObj
  ELSE LET functionTools == SelectSeq(opts.tools, IsFunctionTool)
       IN IF Len(functionTools) > 0
          THEN [tools |-> mapToolsToGeminiFormat(functionTools)]
          ELSE EmptyObj

\* the request doGenerate / doStream give to the backend for the call
\* options
BackendRequest(mapped, generationConfig) ==
  [model |-> ModelId,
   contents |-> mapped.contents,
   config |-> generationConfig @@ Pick(mapped, "systemInstruction")
                @@ MappedTools(options)]

\* mutant of Prepare: the abort signal is not checked before the backend call
Prepare_NoAbortCheck ==
  /\ pc = "awaitInit"
  /\ initPromise \in {"fulfilled", "rejected"} \/ contentGenerator
  /\ LET mapped == mapPromptToGeminiFormat(options)
         prepared == prepareGenerationConfig(options, settings)
     IN IF ~contentGenerator
        THEN /\ Reject(InitError(ClientFailure))
             /\ UNCHANGED <<warnings, backendCalls, request, nextId>>
        ELSE IF Has(mapped, "throw")
        THEN /\ Reject(mapped.throw)
             /\ UNCHANGED <<warnings, backendCalls, request, nextId>>
        ELSE /\ warnings' = prepared.warnings
             /\ backendCalls' = backendCalls + 1
             /\ request' = BackendRequest(mapped, prepared.generationConfig)
             /\ nextId' = nextId + 1
             /\ pc' = "awaitBackend"
             /\ UNCHANGED error
  /\ UNCHANGED <<instanceVars, op, options, result, streamVars, historyVars,
                 aborted, abortedAt, readerVars, requests, mapperVars>>

\* the request resumes after `await this.ensureInitialized()`: it maps the
\* prompt, prepares the generation config, checks the abort signal and
\* calls the backend
\* mutant of Prepare: the backend is called before the failure of the prompt
\* mapping is looked at
Prepare_CallsBackendFirst ==
  /\ pc = "awaitInit"
  /\ initPromise \in {"fulfilled", "rejected"} \/ contentGenerator
  /\ LET mapped == mapPromptToGeminiFormat(options)
         prepared == prepareGenerationConfig(options, settings)
     IN IF ~contentGenerator
        THEN /\ Reject(InitError(ClientFailure))
             /\ UNCHANGED <<warnings, backendCalls, request, nextId>>
        ELSE IF Has(mapped, "throw")
        THEN /\ Reject(mapped.throw)
             /\ backendCalls' = backendCalls + 1
             /\ UNCHANGED <<warnings, request, nextId>>
        ELSE IF aborted
        THEN /\ Reject(AbortError)
             /\ warnings' = prepared.warnings
             /\ UNCHANGED <<backendCalls, request, nextId>>
        ELSE /\ warnings' = prepared.warnings
             /\ backendCalls' = backendCalls + 1
             /\ request' = BackendRequest(mapped, prepared.generationConfig)
             /\ nextId' = nextId + 1
             /\ pc' = "awaitBackend"
             /\ UNCHANGED error
  /\ UNCHANGED <<instanceVars, op, options, result, streamVars, historyVars,
                 aborted, abortedAt, readerVars, requests, mapperVars>>

Prepare ==
  /\ pc = "awaitInit"
  /\ initPromise \in {"fulfilled", "rejected"} \/ contentGenerator
  /\ LET mapped == mapPromptToGeminiFormat(options)
         prepared == prepareGenerationConfig(options, settings)
     IN IF ~contentGenerator
        THEN /\ Reject(InitError(ClientFailure))
             /\ UNCHANGED <<warnings, backendCalls, request, nextId>>
        ELSE IF Has(mapped, "throw")
        THEN /\ Reject(mapped.throw)
             /\ UNCHANGED <<warnings, backendCalls, request, nextId>>
        ELSE IF aborted
        THEN /\ Reject(AbortError)
             /\ warnings' = prepared.warnings
             /\ UNCHANGED <<backendCalls, request, nextId>>
        ELSE /\ warnings' = prepared.warnings
             /\ backendCalls' = backendCalls + 1
             /\ request' = BackendRequest(mapped, prepared.generationConfig)
             /\ nextId' = nextId + 1
             /\ pc' = "awaitBackend"
             /\ UNCHANGED error
  /\ UNCHANGED <<instanceVars, op, options, result, streamVars, historyVars,
                 aborted, abortedAt, readerVars, requests, mapperVars>>

\* generateContent / generateContentStream rejects
BackendRejects ==
  /\ pc = "awaitBackend"
  /\ Reject(BackendFailure)
  /\ UNCHANGED <<instanceVars, op, options, warnings, backendCalls, request, nextId, result,
                 streamVars, historyVars, aborted, abortedAt,
                 readerVars, requests, mapperVars>>

\* mutant of GenerateReturns: the abort signal is not checked again after
\* generateContent returns
GenerateReturns_NoAbortCheck(response) ==
  /\ pc = "awaitBackend"
  /\ op = "generate"
  /\ lastResponse' = [response |-> response]
  /\ LET r == GenerateResult(response, warnings, nextId) IN
     /\ result' = r.value
     /\ nextId' = r.nextId
     /\ pc' = "returned"
     /\ UNCHANGED error
  /\ UNCHANGED <<instanceVars, op, options, warnings, backendCalls, request, streamVars,
                 pulled, fcSeen, usageSeen, usageChunks, lastSignal, signalSeen,
                 aborted, abortedAt, readerVars, requests, mapperVars>>

\* generateContent resolves with a response: doGenerate checks the abort
\* signal and builds its result
GenerateReturns(response) ==
  /\ pc = "awaitBackend"
  /\ op = "generate"
  /\ lastResponse' = [response |-> response]
  /\ IF aborted
     THEN /\ Reject(AbortError)
          /\ UNCHANGED <<result, nextId>>
     ELSE LET r == GenerateResult(response, warnings, nextId) IN
          /\ result' = r.value
          /\ nextId' = r.nextId
          /\ pc' = "returned"
          /\ UNCHANGED error
  /\ UNCHANGED <<instanceVars, op, options, warnings, backendCalls, request, streamVars,
                 pulled, fcSeen, usageSeen, usageChunks, lastSignal, signalSeen,
                 aborted, abortedAt, readerVars, requests, mapperVars>>

\* mutant of StreamReturns: stream-start is enqueued without the warnings
StreamReturns_NoWarnings ==
  /\ pc = "awaitBackend"
  /\ op = "stream"
  /\ IF aborted
     THEN /\ Reject(AbortError)
          /\ UNCHANGED events
     ELSE /\ events' = Append(events, [type |-> "stream-start", warnings |-> <<>>])
          /\ pc' = "iterating"
          /\ UNCHANGED error
  /\ UNCHANGED <<instanceVars, op, options, warnings, backendCalls, request, nextId, result,
                 totalInputTokens, totalOutputTokens, textPartId, hasToolCalls,
                 historyVars, aborted, abortedAt, readerVars, requests, mapperVars>>

\* mutant of StreamReturns: the abort signal is not checked after
\* generateContentStream returns nor at the start of the transform
\* mutant of StreamReturns: the signal is only looked at in start(), which
\* errors the stream that doStream has handed to its caller
StreamReturns_AbortErrorsStream ==
  /\ pc = "awaitBackend"
  /\ op = "stream"
  /\ IF aborted
     THEN /\ pc' = "errored"
          /\ error' = AbortError
          /\ UNCHANGED events
     ELSE /\ events' = Append(events, [type |-> "stream-start", warnings |-> warnings])
          /\ pc' = "iterating"
          /\ UNCHANGED error
  /\ UNCHANGED <<instanceVars, op, options, warnings, backendCalls, request, nextId, result,
                 totalInputTokens, totalOutputTokens, textPartId, hasToolCalls,
                 historyVars, aborted, abortedAt, readerVars, requests, mapperVars>>

StreamReturns_NoAbortCheck ==
  /\ pc = "awaitBackend"
  /\ op = "stream"
  /\ events' = Append(events, [type |-> "stream-start", warnings |-> warnings])
  /\ pc' = "iterating"
  /\ UNCHANGED <<instanceVars, op, options, warnings, backendCalls, request, nextId, result,
                 error, totalInputTokens, totalOutputTokens, textPartId, hasToolCalls,
                 historyVars, aborted, abortedAt, readerVars, requests, mapperVars>>

\* generateContentStream resolves: doStream checks the abort signal, creates
\* the ReadableStream, whose start() runs up to the first await of the loop
\* (stream-start is enqueued and the first chunk is asked for), and returns
StreamReturns ==
  /\ pc = "awaitBackend"
  /\ op = "stream"
  /\ IF aborted
     THEN /\ Reject(AbortError)
          /\ UNCHANGED events
     ELSE /\ events' = Append(events, [type |-> "stream-start", warnings |-> warnings])
          /\ pc' = "iterating"
          /\ UNCHANGED error
  /\ UNCHANGED <<instanceVars, op, options, warnings, backendCalls, request, nextId, result,
                 totalInputTokens, totalOutputTokens, textPartId, hasToolCalls,
                 historyVars, aborted, abortedAt, readerVars, requests, mapperVars>>

\* What a step of the transform does to a read() of the consumer that is
\* pending: the first part enqueued fulfils it, controller.error() rejects
\* it, controller.close() ends it. Without a pending read the parts wait in
\* the queue of the stream.
SettleRead ==
  IF reading # "pending"
  THEN UNCHANGED readerVars
  ELSE IF Len(events') > received
  THEN /\ received' = received + 1
       /\ reading' = "value"
  ELSE /\ UNCHANGED received
       /\ reading' = CASE pc' = "errored" -> "failed"
                      [] pc' = "closed" -> "done"
                      [] OTHER -> "pending"

\* mutant of ChunkArrives: the abort signal is not checked in the loop
ChunkArrives_NoAbortCheck(chunk) ==
  /\ pc = "iterating"
  /\ pulled < MaxChunks
  /\ pulled' = pulled + 1
  /\ SetLocals(StreamChunk(Locals, chunk))
  /\ fcSeen' = (fcSeen \/ HoldsFunctionCall(chunk))
  /\ usageSeen' = IF Has(chunk, "usageMetadata")
                  THEN chunk.usageMetadata ELSE usageSeen
  /\ usageChunks' = IF Has(chunk, "usageMetadata")
                    THEN usageChunks + 1 ELSE usageChunks
  /\ lastSignal' = IF Has(chunk, "finishReason")
                   THEN [finishReason |-> chunk.finishReason] ELSE EmptyObj
  /\ signalSeen' = (signalSeen \/ Has(chunk, "finishReason"))
  /\ UNCHANGED <<pc, error>>
  /\ UNCHANGED <<instanceVars, op, options, warnings, backendCalls, request, result,
                 lastResponse, aborted, abortedAt, requests, mapperVars>>
  /\ SettleRead

\* the backend delivers the next chunk: the loop body runs, up to the await
\* of the chunk after
ChunkArrives(chunk) ==
  /\ pc = "iterating"
  /\ pulled < MaxChunks
  /\ pulled' = pulled + 1
  /\ IF aborted
     THEN /\ pc' = "errored"
          /\ error' = AbortError
          /\ UNCHANGED <<streamVars, nextId, fcSeen, usageSeen, usageChunks, lastSignal,
                         signalSeen>>
     ELSE /\ SetLocals(StreamChunk(Locals, chunk))
          /\ fcSeen' = (fcSeen \/ HoldsFunctionCall(chunk))
          /\ usageSeen' = IF Has(chunk, "usageMetadata")
                          THEN chunk.usageMetadata ELSE usageSeen
          /\ usageChunks' = IF Has(chunk, "usageMetadata")
                            THEN usageChunks + 1 ELSE usageChunks
          /\ lastSignal' = IF Has(chunk, "finishReason")
                           THEN [finishReason |-> chunk.finishReason] ELSE EmptyObj
          /\ signalSeen' = (signalSeen \/ Has(chunk, "finishReason"))
          /\ UNCHANGED <<pc, error>>
  /\ UNCHANGED <<instanceVars, op, options, warnings, backendCalls, request, result,
                 lastResponse, aborted, abortedAt, requests, mapperVars>>
  /\ SettleRead

\* mutant of IteratorDone: a finish part is made up when the backend sent no
\* finishReason
IteratorDone_SyntheticFinish ==
  /\ pc = "iterating"
  /\ pc' = "closed"
  /\ events' = IF signalSeen
               THEN events
               ELSE Append(events,
                           [type |-> "finish",
                            finishReason |-> [unified |-> "other", raw |-> "none"],
                            usage |-> UsageOf(totalInputTokens, totalOutputTokens)])
  /\ UNCHANGED <<instanceVars, op, options, warnings, backendCalls, request, nextId, error,
                 result, totalInputTokens, totalOutputTokens, textPartId,
                 hasToolCalls, historyVars, aborted, abortedAt, requests, mapperVars>>
  /\ SettleRead

\* the backend's sequence ends: the loop is left and controller.close() runs
IteratorDone ==
  /\ pc = "iterating"
  /\ pc' = "closed"
  /\ UNCHANGED <<instanceVars, op, options, warnings, backendCalls, request, nextId, error,
                 result, streamVars, historyVars, aborted, abortedAt,
                 requests, mapperVars>>
  /\ SettleRead

\* mutant of IteratorThrows: the open text block is ended before the stream
\* is errored
IteratorThrows_EndsTextFirst ==
  /\ pc = "iterating"
  /\ pc' = "errored"
  /\ error' = mapGeminiError(BackendFailure)
  /\ events' = IF textPartId = EmptyObj
               THEN events
               ELSE Append(events, [type |-> "text-end", id |-> textPartId.id])
  /\ UNCHANGED <<instanceVars, op, options, warnings, backendCalls, request, nextId,
                 result, totalInputTokens, totalOutputTokens, textPartId,
                 hasToolCalls, historyVars, aborted, abortedAt, requests, mapperVars>>
  /\ SettleRead

\* the backend's sequence raises: the catch block errors the stream with the
\* mapped error
IteratorThrows ==
  /\ pc = "iterating"
  /\ pc' = "errored"
  /\ error' = mapGeminiError(BackendFailure)
  /\ UNCHANGED <<instanceVars, op, options, warnings, backendCalls, request, nextId,
                 result, streamVars, historyVars, aborted, abortedAt,
                 requests, mapperVars>>
  /\ SettleRead

Next ==
  \/ Abort
  \/ \E o \in {"generate", "stream"}, opts \in OptionsSet : Call(o, opts)
  \/ InitializeResolves
  \/ InitializeRejects
  \/ Prepare
  \/ BackendRejects
  \/ \E response \in Chunks : GenerateReturns(response)
  \/ StreamReturns
  \/ \E chunk \in Chunks : ChunkArrives(chunk)
  \/ IteratorDone
  \/ IteratorThrows

Spec == Init /\ [][Next]_vars

\* ------------------------------------------------------------------------
\* doStream with the consumer of its stream
\* ------------------------------------------------------------------------

\* the consumer calls read() on the reader of the stream doStream returned.
\* An errored stream rejects the read and has dropped the parts that were
\* still queued; otherwise the read takes the next queued part, ends on a
\* closed stream whose queue is empty, and else stays pending.
Read ==
  /\ op = "stream"
  /\ pc \in {"iterating", "closed", "errored"}
  /\ reading \in {"none", "value"}
  /\ IF pc = "errored"
     THEN /\ reading' = "failed"
          /\ UNCHANGED received
     ELSE IF received < Len(events)
     THEN /\ received' = received + 1
          /\ reading' = "value"
     ELSE /\ reading' = IF pc = "closed" THEN "done" ELSE "pending"
          /\ UNCHANGED received
  /\ UNCHANGED <<instanceVars, requestVars, streamVars, historyVars, aborted,
                 abortedAt, requests, mapperVars>>

\* the chunks of the backend when the consumer is looked at: each of them
\* makes the transform enqueue at least one part
ReaderChunks ==
  { [parts |-> <<[text |-> "Hello"]>>],
    [parts |-> <<[functionCall |-> [name |-> "getWeather", args |-> [city |-> "Oslo"]]]>>],
    [parts |-> <<[text |-> "Hello"]>>, finishReason |-> "STOP",
     usageMetadata |-> [promptTokenCount |-> 1, candidatesTokenCount |-> 2]] }

ReaderNext ==
  \/ Abort
  \/ Call("stream", [prompt |-> HelloPrompt])
  \/ InitializeResolves
  \/ InitializeRejects
  \/ Prepare
  \/ BackendRejects
  \/ StreamReturns
  \/ \E chunk \in ReaderChunks : ChunkArrives(chunk)
  \/ IteratorDone
  \/ IteratorThrows
  \/ Read

SpecReader == Init /\ [][ReaderNext]_vars

\* ------------------------------------------------------------------------
\* mapPromptToGeminiFormat on its own
\* ------------------------------------------------------------------------

\* the caller holds options whose prompt is any list of up to MaxMessages
\* messages
MapInit ==
  /\ InstanceInit
  /\ settings = EmptyObj
  /\ \E choice \in MessageChoices : mapInput = [prompt |-> PromptOf(choice)]
  /\ mapOutput = EmptyObj
  /\ schema = EmptyObj
  /\ cleanings = <<>>
  /\ converters = NativeConverter

\* mapPromptToGeminiFormat(mapInput) is called
MapPrompt ==
  /\ mapOutput = EmptyObj
  /\ mapOutput' = [value |-> mapPromptToGeminiFormat(mapInput)]
  /\ UNCHANGED <<instanceVars, requestVars, streamVars, historyVars, aborted,
                 abortedAt, readerVars, requests, mapInput, cleanerVars,
                 converters>>

MapNext == MapPrompt

SpecMap == MapInit /\ [][MapNext]_vars

\* ------------------------------------------------------------------------
\* The generation config: an instance with settings, options of all kinds
\* ------------------------------------------------------------------------

\* the settings an instance is constructed with: none, sampling defaults,
\* and thinking defaults (valid level, level and budget, a level that is no
\* enum value, an empty object, includeThoughts alone)
SettingsSet ==
  { EmptyObj,
    [temperature |-> 1, topP |-> 1, topK |-> 1, maxOutputTokens |-> 1,
     stopSequences |-> <<"END">>],
    [thinkingConfig |-> [thinkingLevel |-> "high"]],
    [thinkingConfig |-> [thinkingLevel |-> "low", thinkingBudget |-> 512]],
    [thinkingConfig |-> [thinkingLevel |-> "hihg"]],
    [thinkingConfig |-> EmptyObj],
    [thinkingConfig |-> [includeThoughts |-> TRUE]] }

\* what the call options hold besides the prompt
OptionFields ==
  { EmptyObj,
    [responseFormat |-> [type |-> "text"]],
    [responseFormat |-> [type |-> "json"]],
    [responseFormat |-> [type |-> "json", schema |-> [type |-> "object"]]],
    [temperature |-> 0],
    [topK |-> 2, stopSequences |-> <<"STOP">>],
    [temperature |-> 0, topP |-> 0, topK |-> 0, maxOutputTokens |-> 0],
    [thinkingConfig |-> [thinkingLevel |-> "hihg"]],
    [thinkingConfig |-> [thinkingLevel |-> "hihg", thinkingBudget |-> 0]],
    [thinkingConfig |-> [thinkingLevel |-> "LOW"]],
    [thinkingConfig |-> [thinkingLevel |-> "High", includeThoughts |-> FALSE]],
    [thinkingConfig |-> [thinkingBudget |-> 0]],
    [thinkingConfig |-> EmptyObj] }

ConfigOptions == { [prompt |-> HelloPrompt] @@ f : f \in OptionFields }

\* the finishReason values of the backend: those of the table, one outside
\* it, and none
FinishReasons == {"STOP", "MAX_TOKENS", "SAFETY", "RECITATION", "OTHER", "BLOCKLIST"}

\* responses and chunks with a text part or a function call, with and
\* without finishReason
FinishResponses ==
  { [parts |-> <<p>>] @@ f :
      p \in BackendParts,
      f \in {EmptyObj} \cup {[finishReason |-> r] : r \in FinishReasons} }

ConfigInit ==
  /\ InstanceInit
  /\ settings \in SettingsSet
  /\ mapInput = NoOptions
  /\ mapOutput = EmptyObj
  /\ schema = EmptyObj
  /\ cleanings = <<>>
  /\ converters = NativeConverter

ConfigNext ==
  \/ \E o \in {"generate", "stream"}, opts \in ConfigOptions : Call(o, opts)
  \/ InitializeResolves
  \/ Prepare
  \/ \E response \in FinishResponses : GenerateReturns(response)
  \/ StreamReturns
  \/ \E chunk \in FinishResponses : ChunkArrives(chunk)
  \/ IteratorDone

SpecConfig == ConfigInit /\ [][ConfigNext]_vars

\* ------------------------------------------------------------------------
\* mapPromptToGeminiFormat on one message with parts of all kinds
\* ------------------------------------------------------------------------

\* the number of parts in the content of the message
MaxMessageParts == 2

\* the parts of a tool message: a tool-result for every kind of output, and
\* a part that is no tool-result
ToolParts ==
  << [type |-> "tool-result", toolName |-> "text",
      output |-> [type |-> "text", value |-> "sunny"]],
     [type |-> "tool-result", toolName |-> "errorText",
      output |-> [type |-> "error-text", value |-> "timeout"]],
     [type |-> "tool-result", toolName |-> "jsonObject",
      output |-> [type |-> "json",
                  value |-> [json |-> "object", v |-> [temperature |-> 72]]]],
     [type |-> "tool-result", toolName |-> "jsonNumber",
      output |-> [type |-> "json", value |-> [json |-> "number", v |-> 72]]],
     [type |-> "tool-result", toolName |-> "jsonString",
      output |-> [type |-> "json", value |-> [json |-> "string", v |-> "ok"]]],
     [type |-> "tool-result", toolName |-> "jsonBoolean",
      output |-> [type |-> "json", value |-> [json |-> "boolean", v |-> FALSE]]],
     [type |-> "tool-result", toolName |-> "jsonNull",
      output |-> [type |-> "json", value |-> [json |-> "null"]]],
     [type |-> "tool-result", toolName |-> "jsonArray",
      output |-> [type |-> "json",
                  value |-> [json |-> "array", v |-> <<[temperature |-> 72]>>]]],
     [type |-> "tool-result", toolName |-> "errorJsonObject",
      output |-> [type |-> "error-json",
                  value |-> [json |-> "object", v |-> [code |-> 500]]]],
     [type |-> "tool-result", toolName |-> "errorJsonString",
      output |-> [type |-> "error-json",
                  value |-> [json |-> "string", v |-> "failed"]]],
     [type |-> "tool-result", toolName |-> "denied",
      output |-> [type |-> "execution-denied"]],
     [type |-> "tool-result", toolName |-> "deniedWithReason",
      output |-> [type |-> "execution-denied", reason |-> "policy"]],
     [type |-> "tool-result", toolName |-> "content",
      output |-> [type |-> "content",
                  value |-> <<[type |-> "text", text |-> "a"],
                              [type |-> "image-data", data |-> Base64(<<65>>)],
                              [type |-> "text", text |-> "b"]>>]],
     [type |-> "tool-approval-response", approvalId |-> "1", approved |-> TRUE] >>

\* the parts of a user or assistant message: a text, and files of supported
\* and of other media types, one without media type
FileAndTextParts ==
  << [type |-> "text", text |-> "Hi"],
     [type |-> "file", mediaType |-> <<"image", "png">>,
      data |-> [kind |-> "string", value |-> Base64(<<65>>)]],
     [type |-> "file", mediaType |-> <<"application", "pdf">>,
      data |-> [kind |-> "Uint8Array", bytes |-> <<65>>]],
     [type |-> "file", mediaType |-> <<"text", "plain">>,
      data |-> [kind |-> "string", value |-> Base64(<<65>>)]],
     [type |-> "file", mediaType |-> <<"application", "json">>,
      data |-> [kind |-> "Uint8Array", bytes |-> <<65>>]],
     [type |-> "file", mediaType |-> <<>>,
      data |-> [kind |-> "string", value |-> Base64(<<65>>)]] >>

PartsOf(role) == IF role = "tool" THEN ToolParts ELSE FileAndTextParts

\* the message of the given role whose content is the parts at the chosen
\* places of the role's parts
MessageOf(role, choice) ==
  [role |-> role, content |-> [i \in 1..Len(choice) |-> PartsOf(role)[choice[i]]]]

PartsInit ==
  /\ InstanceInit
  /\ settings = EmptyObj
  /\ \E role \in {"user", "assistant", "tool"} :
       \E choice \in SeqUpTo(1..Len(PartsOf(role)), MaxMessageParts) :
         mapInput = [prompt |-> <<MessageOf(role, choice)>>]
  /\ mapOutput = EmptyObj
  /\ schema = EmptyObj
  /\ cleanings = <<>>
  /\ converters = NativeConverter

PartsNext == MapPrompt

SpecParts == PartsInit /\ [][PartsNext]_vars

\* ------------------------------------------------------------------------
\* cleanJsonSchema on its own
\* ------------------------------------------------------------------------

\* how many times in a row the cleaner is applied
MaxCleanings == 2

CleanInit ==
  /\ InstanceInit
  /\ settings = EmptyObj
  /\ mapInput = NoOptions
  /\ mapOutput = EmptyObj
  /\ schema \in Schemas
  /\ cleanings = <<>>
  /\ converters = NativeConverter

\* cleanJsonSchema is called, on the schema first and then on its own result
CleanSchema ==
  /\ Len(cleanings) < MaxCleanings
  /\ cleanings' = Append(cleanings,
                         cleanJsonSchema(IF cleanings = <<>> THEN schema
                                         ELSE Last(cleanings)))
  /\ UNCHANGED <<instanceVars, requestVars, streamVars, historyVars, aborted,
                 abortedAt, readerVars, requests, mapInput, mapOutput, schema,
                 converters>>

CleanNext == CleanSchema

SpecClean == CleanInit /\ [][CleanNext]_vars

\* ------------------------------------------------------------------------
\* Several requests on one adapter instance
\* ------------------------------------------------------------------------
\* The requests share this.contentGenerator, this.config and
\* this.initPromise; everything else of a request lives in the locals of its
\* own call. The requests carry no abort signal here.

requestsUnchanged ==
  UNCHANGED <<requestVars, streamVars, historyVars, aborted, abortedAt,
              readerVars, mapperVars>>

\* mutant of RequestCalls: every request that finds no client calls
\* initialize(), whether or not an initialization is under way
RequestCalls_NoSharedPromise(r, o, opts) ==
  /\ requests[r].pc = "idle"
  /\ IF contentGenerator
     THEN UNCHANGED <<initPromise, initCalls>>
     ELSE /\ initPromise' = "pending"
          /\ initCalls' = initCalls + 1
  /\ requests' = [requests EXCEPT ![r].pc = "awaitInit", ![r].op = o,
                                  ![r].options = opts]
  /\ UNCHANGED <<contentGenerator, clientId, settings>>
  /\ requestsUnchanged

\* request r calls doGenerate(opts) / doStream(opts), which runs up to the
\* await in ensureInitialized
RequestCalls(r, o, opts) ==
  /\ requests[r].pc = "idle"
  /\ IF contentGenerator
     THEN UNCHANGED <<initPromise, initCalls>>
     ELSE IF initPromise = "none"
     THEN /\ initPromise' = "pending"
          /\ initCalls' = initCalls + 1
     ELSE UNCHANGED <<initPromise, initCalls>>
  /\ requests' = [requests EXCEPT ![r].pc = "awaitInit", ![r].op = o,
                                  ![r].options = opts]
  /\ UNCHANGED <<contentGenerator, clientId, settings>>
  /\ requestsUnchanged

\* mutant of RequestPrepares: a request goes on to the backend although the
\* initialization it waited for has failed
RequestPrepares_IgnoresInitFailure(r) ==
  /\ requests[r].pc = "awaitInit"
  /\ initPromise \in {"fulfilled", "rejected"} \/ contentGenerator
  /\ LET rq == requests[r]
         mapped == mapPromptToGeminiFormat(rq.options)
         prepared == prepareGenerationConfig(rq.options, settings)
     IN requests' =
          [requests EXCEPT ![r] =
             IF Has(mapped, "throw")
             THEN [rq EXCEPT !.pc = "rejected", !.error = mapGeminiError(mapped.throw)]
             ELSE [rq EXCEPT !.pc = "awaitBackend",
                             !.client = clientId,
                             !.warnings = prepared.warnings,
                             !.backendCalls = @ + 1,
                             !.st.nextId = @ + 1]]
  /\ UNCHANGED instanceVars
  /\ requestsUnchanged

\* request r resumes after `await this.ensureInitialized()`: the await
\* throws when the initialization failed; else the request takes the client
\* handle of the instance, maps its prompt, prepares its generation config
\* and calls the backend
RequestPrepares(r) ==
  /\ requests[r].pc = "awaitInit"
  /\ initPromise \in {"fulfilled", "rejected"} \/ contentGenerator
  /\ LET rq == requests[r]
         mapped == mapPromptToGeminiFormat(rq.options)
         prepared == prepareGenerationConfig(rq.options, settings)
     IN requests' =
          [requests EXCEPT ![r] =
             IF ~contentGenerator
             THEN [rq EXCEPT !.pc = "rejected",
                             !.error = mapGeminiError(InitError(ClientFailure))]
             ELSE IF Has(mapped, "throw")
             THEN [rq EXCEPT !.pc = "rejected", !.error = mapGeminiError(mapped.throw)]
             ELSE [rq EXCEPT !.pc = "awaitBackend",
                             !.client = clientId,
                             !.warnings = prepared.warnings,
                             !.backendCalls = @ + 1,
                             !.st.nextId = @ + 1]]
  /\ UNCHANGED instanceVars
  /\ requestsUnchanged

\* generateContent resolves for request r: doGenerate builds its result
RequestGenerateReturns(r, response) ==
  /\ requests[r].pc = "awaitBackend"
  /\ requests[r].op = "generate"
  /\ LET rq == requests[r]
         g == GenerateResult(response, rq.warnings, rq.st.nextId)
     IN requests' = [requests EXCEPT ![r] =
                       [rq EXCEPT !.pc = "returned",
                                  !.result = g.value,
                                  !.st.nextId = g.nextId,
                                  !.chunks = <<response>>]]
  /\ UNCHANGED instanceVars
  /\ requestsUnchanged

\* generateContentStream resolves for request r: start() of its stream
\* enqueues stream-start and asks for the first chunk
RequestStreamReturns(r) ==
  /\ requests[r].pc = "awaitBackend"
  /\ requests[r].op = "stream"
  /\ LET rq == requests[r]
     IN requests' = [requests EXCEPT ![r] =
                       [rq EXCEPT !.pc = "iterating",
                                  !.st = Enqueue(@, [type |-> "stream-start",
                                                     warnings |-> rq.warnings])]]
  /\ UNCHANGED instanceVars
  /\ requestsUnchanged

\* mutant of RequestLocals: hasToolCalls is kept on the instance and so is
\* one flag for all requests
RequestLocals_FlagOnInstance(r) ==
  [requests[r].st EXCEPT
     !.hasToolCalls = \E q \in Requests : requests[q].st.hasToolCalls]

\* the locals the transform of request r works on: those declared in its
\* own start(controller)
RequestLocals(r) == requests[r].st

\* the backend delivers the next chunk of request r
RequestChunkArrives(r, chunk) ==
  /\ requests[r].pc = "iterating"
  /\ Len(requests[r].chunks) < MaxChunks
  /\ requests' = [requests EXCEPT ![r].st = StreamChunk(RequestLocals(r), chunk),
                                  ![r].chunks = Append(@, chunk)]
  /\ UNCHANGED instanceVars
  /\ requestsUnchanged

\* the backend's sequence of request r ends
RequestIteratorDone(r) ==
  /\ requests[r].pc = "iterating"
  /\ requests' = [requests EXCEPT ![r].pc = "closed"]
  /\ UNCHANGED instanceVars
  /\ requestsUnchanged

\* the options of the concurrent requests: plain, and JSON without a schema
ConcurrentOptions ==
  { [prompt |-> HelloPrompt],
    [prompt |-> HelloPrompt, responseFormat |-> [type |-> "json"]] }

\* the chunks the backend gives the concurrent requests
ConcurrentChunks ==
  { [parts |-> <<[text |-> "Hello"]>>],
    [parts |-> <<[functionCall |-> [name |-> "getWeather", args |-> [city |-> "Oslo"]]]>>,
     finishReason |-> "STOP",
     usageMetadata |-> [promptTokenCount |-> 1, candidatesTokenCount |-> 2]] }

ConcurrentNext ==
  \/ \E r \in Requests, o \in {"generate", "stream"}, opts \in ConcurrentOptions :
        RequestCalls(r, o, opts)
  \/ InitializeResolves
  \/ InitializeRejects
  \/ \E r \in Requests : RequestPrepares(r)
  \/ \E r \in Requests, response \in ConcurrentChunks : RequestGenerateReturns(r, response)
  \/ \E r \in Requests : RequestStreamReturns(r)
  \/ \E r \in Requests, chunk \in ConcurrentChunks : RequestChunkArrives(r, chunk)
  \/ \E r \in Requests : RequestIteratorDone(r)

SpecConcurrent == Init /\ [][ConcurrentNext]_vars

\* ------------------------------------------------------------------------
\* A request on an instance whose initialization has failed
\* ------------------------------------------------------------------------

\* a request is made after the initialization of the instance has failed
LaterCall(o, opts) ==
  /\ initPromise = "rejected"
  /\ Call(o, opts)

\* the earlier requests run as the requests of the instance and start the
\* initialization, which fails; the later request is the one of op, pc, ...
FailedInitNext ==
  \/ \E r \in Requests, o \in {"generate", "stream"}, opts \in ConcurrentOptions :
        RequestCalls(r, o, opts)
  \/ InitializeRejects
  \/ \E r \in Requests : RequestPrepares(r)
  \/ \E o \in {"generate", "stream"}, opts \in OptionsSet : LaterCall(o, opts)
  \/ Prepare
  \/ Abort

SpecFailedInit == Init /\ [][FailedInitNext]_vars

\* ------------------------------------------------------------------------
\* One request and the parts of its response
\* ------------------------------------------------------------------------
\* One request, the first, runs on the instance; the chunks the backend gives it are
\* kept in requests[r].chunks, and the mapper is called on a prompt that
\* holds the tool calls of an earlier turn.

\* the parts the backend sends: texts, one of them empty, and function calls
\* with and without arguments, with a thoughtSignature, with an empty one and
\* with none
HelloPart == [text |-> "Hello"]
WorldPart == [text |-> ", world!"]
WeatherCall == [functionCall |-> [name |-> "getWeather", args |-> [city |-> "Oslo"]]]
NoArgsCall == [functionCall |-> [name |-> "listCities"]]
SignedCall ==
  [functionCall |-> [name |-> "getWeather", args |-> [city |-> "Oslo"]],
   thoughtSignature |-> "sig-1"]
EmptySignatureCall ==
  [functionCall |-> [name |-> "getTime", args |-> [zone |-> "UTC"]],
   thoughtSignature |-> ""]

\* the parts of one chunk (content.parts of the first candidate)
PartLists ==
  { <<>>, <<HelloPart>>, <<WorldPart>>, <<[text |-> ""]>>, <<WeatherCall>>,
    <<SignedCall>>, <<HelloPart, WeatherCall>>, <<NoArgsCall, WorldPart>>,
    <<EmptySignatureCall, WeatherCall>>, <<[text |-> ""], HelloPart>> }

\* the chunks of the request: each list of parts, and some of them with the
\* terminal signal
PartChunks ==
  {[parts |-> ps] : ps \in PartLists}
  \cup {[parts |-> ps, finishReason |-> "STOP",
         usageMetadata |-> [promptTokenCount |-> 1, candidatesTokenCount |-> 2]] :
          ps \in {<<>>, <<WorldPart>>, <<WeatherCall>>, <<HelloPart, SignedCall>>}}

\* the tool calls of an assistant message of an earlier turn: with the
\* thoughtSignature the provider returned, without provider options, with
\* provider options that hold no signature, with an empty one, and with the
\* options of another provider
SignedToolCall ==
  [type |-> "tool-call", toolCallId |-> "call-1", toolName |-> "getWeather",
   input |-> [city |-> "Oslo"],
   providerOptions |-> ("gemini-cli" :> [thoughtSignature |-> "sig-1"])]
PlainToolCall ==
  [type |-> "tool-call", toolCallId |-> "call-2", toolName |-> "getWeather",
   input |-> [city |-> "Oslo"]]
NoSignatureToolCall ==
  [type |-> "tool-call", toolCallId |-> "call-3", toolName |-> "getWeather",
   input |-> [city |-> "Oslo"],
   providerOptions |-> ("gemini-cli" :> EmptyObj)]

\* the assistant messages the mapper is given
ToolCallLists ==
  { <<SignedToolCall>>, <<PlainToolCall>>, <<NoSignatureToolCall, SignedToolCall>>,
    << [type |-> "tool-call", toolCallId |-> "call-4", toolName |-> "getWeather",
        input |-> [city |-> "Oslo"],
        providerOptions |-> ("gemini-cli" :> [thoughtSignature |-> ""])] >>,
    << [type |-> "tool-call", toolCallId |-> "call-5", toolName |-> "getWeather",
        input |-> [city |-> "Oslo"],
        providerOptions |-> ("openai" :> [thoughtSignature |-> "sig-2"])],
       PlainToolCall >> }

ToolLoopPrompt(calls) ==
  << [role |-> "user", content |-> <<[type |-> "text", text |-> "Hello"]>>],
     [role |-> "assistant", content |-> calls] >>

ContentInit ==
  /\ InstanceInit
  /\ settings = EmptyObj
  /\ \E calls \in ToolCallLists : mapInput = [prompt |-> ToolLoopPrompt(calls)]
  /\ mapOutput = EmptyObj
  /\ schema = EmptyObj
  /\ cleanings = <<>>
  /\ converters = NativeConverter

ContentNext ==
  \/ \E o \in {"generate", "stream"} : RequestCalls(1, o, mapInput)
  \/ InitializeResolves
  \/ RequestPrepares(1)
  \/ MapPrompt
  \/ \E response \in PartChunks : RequestGenerateReturns(1, response)
  \/ RequestStreamReturns(1)
  \/ \E chunk \in PartChunks : RequestChunkArrives(1, chunk)
  \/ RequestIteratorDone(1)

SpecContent == ContentInit /\ [][ContentNext]_vars

\* ------------------------------------------------------------------------
\* Requests with tools
\* ------------------------------------------------------------------------

\* what the installation offers to convert a Zod schema: z.toJSONSchema
\* (Zod v4) and the module zod-to-json-schema, each of them absent, working
\* or throwing
Converters ==
  [toJSONSchema : {"absent", "works", "throws"},
   zodToJsonSchema : {"absent", "works", "throws"}]

\* the tools of a call: function tools with a Zod schema,
\* z.object({city: z.string()}), and with a JSON schema, and a tool of the
\* provider
ZodTool ==
  [type |-> "function", name |-> "getWeather", description |-> "the weather",
   inputSchema |-> [_def |-> [typeName |-> "ZodObject",
                              shape |-> [city |-> "string"]]]]
JsonSchemaTool ==
  [type |-> "function", name |-> "getTime",
   inputSchema |-> Obj(("$schema" :> Str("http://json-schema.org/draft-07/schema#"))
                       @@ [type |-> Str("object"),
                           properties |-> Obj([zone |-> Obj([type |-> Str("string")])])])]

ToolOptions ==
  { [prompt |-> HelloPrompt, tools |-> <<ZodTool>>],
    [prompt |-> HelloPrompt, tools |-> <<JsonSchemaTool>>],
    [prompt |-> HelloPrompt, tools |-> <<JsonSchemaTool, ZodTool>>],
    [prompt |-> HelloPrompt,
     tools |-> <<[type |-> "provider", id |-> "google.search", name |-> "search"]>>],
    [prompt |-> HelloPrompt, tools |-> <<ZodTool>>,
     responseFormat |-> [type |-> "json"]] }

ToolsInit ==
  /\ InstanceInit
  /\ settings = EmptyObj
  /\ mapInput = NoOptions
  /\ mapOutput = EmptyObj
  /\ schema = EmptyObj
  /\ cleanings = <<>>
  /\ converters \in Converters

ToolsNext ==
  \/ \E o \in {"generate", "stream"}, opts \in ToolOptions : Call(o, opts)
  \/ InitializeResolves
  \/ Prepare
  \/ \E response \in ConcurrentChunks : GenerateReturns(response)
  \/ StreamReturns
  \/ \E chunk \in ConcurrentChunks : ChunkArrives(chunk)
  \/ IteratorDone

SpecTools == ToolsInit /\ [][ToolsNext]_vars

\* ------------------------------------------------------------------------
\* Properties of the stream parts
\* ------------------------------------------------------------------------

\* the positions of the parts of type t
Positions(t) == {i \in 1..Len(events) : events[i].type = t}

\* a stream was handed to the caller
StreamExists == pc \in {"iterating", "closed", "errored"}

\* the text blocks open after the first n parts: text-start enqueued, no
\* text-end for the id enqueued after it
OpenBlocks(n) ==
  { events[i].id : i \in
      { j \in 1..n :
          /\ events[j].type = "text-start"
          /\ \A k \in (j + 1)..n :
               ~(events[k].type = "text-end" /\ events[k].id = events[j].id) } }

\* C1: in every stream returned by doStream the first part enqueued is
\* stream-start with the warnings computed by prepareGenerationConfig for the
\* call options, and it is there before any backend chunk is consumed (as soon
\* as the stream exists, with no chunk delivered yet).
C1_StreamStartFirst ==
  /\ StreamExists => events # <<>>
  /\ pulled > 0 => events # <<>>
  /\ events # <<>> =>
       /\ events[1].type = "stream-start"
       /\ events[1].warnings =
            (IF Has(options, "responseFormat")
                  /\ options.responseFormat.type = "json"
                  /\ ~Has(options.responseFormat, "schema")
             THEN <<JsonWithoutSchemaWarning>> ELSE <<>>)
       /\ Positions("stream-start") = {1}

\* C1 witness: a closed stream that consumed a chunk, whose stream-start
\* carries the JSON-without-schema warning
C1_Witness ==
  /\ pc = "closed"
  /\ pulled > 0
  /\ Len(events) > 1
  /\ events[1] = [type |-> "stream-start", warnings |-> <<JsonWithoutSchemaWarning>>]

\* C2: once finish is enqueued no further part of any type is enqueued, so
\* there is at most one finish and it is the last part, whatever chunks the
\* backend delivers after the terminal one.
C2_FinishIsLast ==
  \A i \in Positions("finish") : i = Len(events)

\* C3: each text-delta(id) comes after a text-start(id) and not after a
\* text-end(id): text-delta parts occur only while their block is open.
C3_DeltaOnlyWhileOpen ==
  \A i \in Positions("text-delta") :
    /\ \E j \in 1..(i - 1) :
         events[j].type = "text-start" /\ events[j].id = events[i].id
    /\ \A k \in 1..(i - 1) :
         ~(events[k].type = "text-end" /\ events[k].id = events[i].id)

\* C4: in every stream that closes successfully each text-start(id) is
\* followed by exactly one text-end(id).
C4_ExactlyOneTextEnd ==
  pc = "closed" =>
    \A i \in Positions("text-start") :
      Cardinality({ k \in (i + 1)..Len(events) :
                      events[k].type = "text-end" /\ events[k].id = events[i].id }) = 1

\* C5: at every point of the sequence of parts at most one text block is
\* open, and a text-start is enqueued only when no text block is open.
C5_OneOpenTextBlock ==
  \A n \in 1..Len(events) :
    /\ Cardinality(OpenBlocks(n)) <= 1
    /\ events[n].type = "text-start" => OpenBlocks(n - 1) = {}

\* C5 witness: a text block is open and has received two text-delta parts
C5_Witness ==
  /\ Cardinality(OpenBlocks(Len(events))) = 1
  /\ Cardinality(Positions("text-delta")) >= 2

\* ------------------------------------------------------------------------
\* Finish reason and usage of a request
\* ------------------------------------------------------------------------

\* the finish-reason table of the documentation, for a candidate with an
\* optional finishReason
TableReason(candidate) ==
  IF ~Has(candidate, "finishReason") THEN "other"
  ELSE IF candidate.finishReason = "STOP" THEN "stop"
  ELSE IF candidate.finishReason = "MAX_TOKENS" THEN "length"
  ELSE IF candidate.finishReason \in {"SAFETY", "RECITATION"} THEN "content-filter"
  ELSE "other"

\* the finish reason r is the one expected for a candidate and the presence
\* of a function call
ReasonAsExpected(r, candidate, anyFunctionCall) ==
  /\ r.unified = IF anyFunctionCall THEN "tool-calls" ELSE TableReason(candidate)
  /\ Has(r, "raw") = Has(candidate, "finishReason")
  /\ Has(r, "raw") => r.raw = candidate.finishReason

\* the last processed chunk carried the terminal signal: the last part is the
\* finish of that chunk
JustFinished == pc = "iterating" /\ lastSignal # EmptyObj

\* C6: if a chunk of the stream up to the terminal one (doStream) or a part
\* of the response (doGenerate) holds a function call, the unified finish
\* reason is tool-calls whatever the backend's signal is, and the signal is
\* kept as raw; with no function call the signal goes through the table.
C6_ToolCallsForceFinishReason ==
  /\ JustFinished =>
       /\ Last(events).type = "finish"
       /\ ReasonAsExpected(Last(events).finishReason, lastSignal, fcSeen)
  /\ pc = "returned" =>
       ReasonAsExpected(result.finishReason, lastResponse.response,
                        HoldsFunctionCall(lastResponse.response))

\* C6 witness: a stream whose second chunk is terminal with signal SAFETY,
\* after a function call: the finish part says tool-calls, raw SAFETY
C6_Witness ==
  /\ JustFinished
  /\ pulled = 2
  /\ fcSeen
  /\ Last(events).type = "finish"
  /\ Last(events).finishReason = [unified |-> "tool-calls", raw |-> "SAFETY"]

\* C7: the usage totals of a finish part are the token counts of the last
\* chunk with usage metadata up to and including the terminal chunk (for
\* the counts that chunk gives): earlier totals are replaced, not summed.
C7_UsageOfLastChunk ==
  (JustFinished /\ usageSeen # EmptyObj) =>
    /\ Last(events).type = "finish"
    /\ Has(usageSeen, "promptTokenCount") =>
         Last(events).usage.inputTokens.total = usageSeen.promptTokenCount
    /\ Has(usageSeen, "candidatesTokenCount") =>
         Last(events).usage.outputTokens.total = usageSeen.candidatesTokenCount

\* C7 witness: two chunks with usage metadata, the second terminal; finish
\* reports the counts of the second
C7_Witness ==
  /\ JustFinished
  /\ usageChunks = 2
  /\ usageSeen = [promptTokenCount |-> 1, candidatesTokenCount |-> 2]
  /\ Last(events).type = "finish"
  /\ Last(events).usage = UsageOf(1, 2)

\* ------------------------------------------------------------------------
\* Cancellation
\* ------------------------------------------------------------------------

\* the error the catch block of doGenerate / doStream rethrows for the abort
IsAbortError(e) == e.name = "AbortError" /\ e.message = <<"Request aborted">>

\* the abort signal was already triggered when the request was called
AbortedBeforeCall == op # "none" /\ abortedAt = "idle"

\* C8 as stated: if the abort signal is already triggered when doGenerate or
\* doStream is called, the call fails with the cancellation error and the
\* backend's generateContent / generateContentStream is never called.
C8_AbortedCallFailsWithAbortError ==
  AbortedBeforeCall =>
    /\ backendCalls = 0
    /\ pc \in Terminal => (pc = "rejected" /\ IsAbortError(error))

\* C8 amended: if the abort signal is already triggered when doGenerate or
\* doStream is called, the call fails and the backend's generateContent /
\* generateContentStream is never called; the failure is the cancellation
\* error when client initialization and prompt mapping succeed, otherwise
\* the initialization error or the mapping error, which come first.
C8_AbortedCallNeverReachesBackend ==
  AbortedBeforeCall =>
    /\ backendCalls = 0
    /\ events = <<>>
    /\ pc \in {"awaitInit", "rejected"}
    /\ pc = "rejected" =>
         IF initPromise = "rejected"
         THEN error.message[1] = "Failed to initialize Gemini model: "
         ELSE IF options.prompt = TextFilePrompt
         THEN error.message[1] = "Unsupported file type: "
         ELSE IF options.prompt = UrlFilePrompt
         THEN error.message[1] =
                "URL files are not supported by Gemini CLI Core. Please provide base64-encoded data."
         ELSE IF options.prompt = UnknownPayloadPrompt
         THEN error.message[1] = "Unsupported file format"
         ELSE IsAbortError(error)

\* C8 witness: a call made with the signal already triggered was rejected
\* with the cancellation error
C8_Witness ==
  /\ AbortedBeforeCall
  /\ pc = "rejected"
  /\ IsAbortError(error)
  /\ backendCalls = 0

C10_AbortCheckedPerChunk ==
  [][ /\ (pc = "iterating" /\ aborted /\ pulled' = pulled + 1) =>
           /\ pc' = "errored"
           /\ error' = AbortError
           /\ UNCHANGED streamVars
           /\ UNCHANGED <<fcSeen, usageSeen, usageChunks>>
      /\ pc = "errored" => UNCHANGED <<events, pc>>
    ]_vars

\* C10 witness: the second chunk arrived after the signal was triggered in
\* mid-stream; the stream is errored with the AbortError and holds the parts
\* of the first chunk only
C10_Witness ==
  /\ pc = "errored"
  /\ error = AbortError
  /\ abortedAt = "iterating"
  /\ pulled = 2
  /\ Len(events) > 1

\* ------------------------------------------------------------------------
\* The abort signal while generateContent is in flight
\* ------------------------------------------------------------------------

\* the signal was triggered after doGenerate called generateContent, and
\* generateContent resolved with a response
AbortedInFlight ==
  /\ op = "generate"
  /\ abortedAt = "awaitBackend"
  /\ lastResponse # EmptyObj

\* C12: when the abort signal is triggered while generateContent is in
\* flight, doGenerate rejects with the AbortError although the backend
\* answered, and returns no result (no content, finish reason or usage).
C12_GenerateRechecksAbort ==
  AbortedInFlight =>
    /\ pc = "rejected"
    /\ IsAbortError(error)
    /\ result = EmptyObj

\* doGenerate was aborted in flight, the backend answered with a text part
\* and a finishReason, and the call rejected
C12_Witness ==
  /\ AbortedInFlight
  /\ lastResponse.response.parts # <<>>
  /\ Has(lastResponse.response, "finishReason")
  /\ pc = "rejected"
  /\ IsAbortError(error)

\* ------------------------------------------------------------------------
\* The end of the backend's sequence
\* ------------------------------------------------------------------------

\* the step in which the backend's sequence raises: the loop is left for the
\* catch block without a chunk having been delivered
SequenceRaises ==
  /\ pc = "iterating"
  /\ pc' = "errored"
  /\ pulled' = pulled

\* C13: when the backend's sequence raises during the iteration the stream
\* is errored with the mapped error, and no part is enqueued in that step
\* nor at any time after it.
C13_IteratorFailureEndsStream ==
  [][ /\ SequenceRaises => /\ error' = mapGeminiError(BackendFailure)
                           /\ events' = events
      /\ pc = "errored" => /\ pc' = "errored"
                           /\ events' = events
                           /\ error' = error ]_vars

\* the backend raised while a text block was open: the stream is errored and
\* its last part is the text-delta
C13_Witness ==
  /\ pc = "errored"
  /\ error = mapGeminiError(BackendFailure)
  /\ textPartId # EmptyObj
  /\ Last(events).type = "text-delta"

\* C14: when the backend's sequence ends and no chunk had a finishReason, the
\* stream is closed without an error and holds no finish and no
\* response-metadata part.
C14_NoSignalNoFinish ==
  (pc = "closed" /\ ~signalSeen) =>
    /\ error = NoError
    /\ Positions("finish") = {}
    /\ Positions("response-metadata") = {}

\* the stream closed after chunks with text, none with a finishReason: its
\* last part is the text-delta of the last chunk
C14_Witness ==
  /\ pc = "closed"
  /\ ~signalSeen
  /\ pulled = MaxChunks
  /\ Last(events).type = "text-delta"
  /\ error = NoError

\* ------------------------------------------------------------------------
\* The consumer and the abort signal, the consumer and the backend
\* ------------------------------------------------------------------------

\* the step is a read() of the consumer
ReadIssued ==
  /\ reading # "pending"
  /\ readerVars' # readerVars
  /\ UNCHANGED <<pc, events, pulled>>

\* C11: when the abort signal has been triggered on a stream in progress and
\* the consumer has received every part emitted so far, its next read() is
\* rejected with the AbortError in the step of the read itself, without a
\* chunk of the backend having to arrive.
C11_ReadAfterAbortFailsAtOnce ==
  [][ (aborted /\ pc = "iterating" /\ received = Len(events) /\ ReadIssued)
        => /\ reading' = "failed"
           /\ IsAbortError(error') ]_vars

\* C17: the transform is at most one chunk ahead of the consumer. Every
\* chunk of ReaderChunks yields a part and stream-start precedes them all, so
\* a consumer that has received at most one part has received no part of
\* any chunk: the backend has then delivered at most one chunk.
C17_AtMostOneChunkAhead ==
  (pc \in {"iterating", "closed"} /\ received <= 1) => pulled <= 1

\* ------------------------------------------------------------------------
\* Several requests: the one initialization
\* ------------------------------------------------------------------------

\* the requests that ensureInitialized has given a client handle
WithClient == {r \in Requests : requests[r].client # 0}

\* C15: on one instance initializeGeminiClient is called at most once, and
\* exactly once as soon as a request has been made, whatever the number and
\* the interleaving of the requests; every request that got a client handle
\* got the one of that single call.
C15_InitializedOnce ==
  /\ initCalls <= 1
  /\ (\E r \in Requests : requests[r].pc # "idle") => initCalls = 1
  /\ \A r \in WithClient : requests[r].client = 1
  /\ \A r \in Requests :
       requests[r].pc \in {"awaitBackend", "returned", "iterating", "closed"}
         => r \in WithClient

\* every request, doGenerate and doStream among them, has called while the
\* initialization was pending, and the initializer has been called once
C15_Witness ==
  /\ initPromise = "pending"
  /\ initCalls = 1
  /\ \A r \in Requests : requests[r].pc = "awaitInit"
  /\ {requests[r].op : r \in Requests} = {"generate", "stream"}

\* the error initialize() throws, as the request rejects with it
IsInitError(e) ==
  /\ e.name = "Error"
  /\ Len(e.message) > 1
  /\ e.message[1] = "Failed to initialize Gemini model: "
  /\ Last(e.message) = Last(ClientFailure.message)

\* C16: when initializeGeminiClient has failed, no request has called or
\* calls the backend, and every request that resumed from waiting for the
\* initialization rejected with the error that wraps the cause.
C16_InitFailureFailsAllWaiters ==
  initPromise = "rejected" =>
    \A r \in Requests :
      /\ requests[r].backendCalls = 0
      /\ requests[r].pc \in {"idle", "awaitInit", "rejected"}
      /\ requests[r].pc = "rejected" => IsInitError(requests[r].error)

\* the initialization failed and all requests, a doGenerate and a doStream
\* among them, rejected with the wrapping error
C16_Witness ==
  /\ initPromise = "rejected"
  /\ initCalls = 1
  /\ \A r \in Requests : /\ requests[r].pc = "rejected"
                          /\ IsInitError(requests[r].error)
  /\ {requests[r].op : r \in Requests} = {"generate", "stream"}

\* ------------------------------------------------------------------------
\* Several requests: no interference
\* ------------------------------------------------------------------------

\* the locals of a transform when it has enqueued stream-start
SoloStart(opts) ==
  Enqueue([NewLocals EXCEPT !.nextId = 2],
          [type |-> "stream-start",
           warnings |-> prepareGenerationConfig(opts, settings).warnings])

\* the locals of a transform that has worked through chunks[i..] on its own
RECURSIVE SoloLocals(_, _, _)
SoloLocals(st, chunks, i) ==
  IF i > Len(chunks)
  THEN st
  ELSE SoloLocals(StreamChunk(st, chunks[i]), chunks, i + 1)

MapReturned == mapOutput # EmptyObj /\ ~Has(mapOutput.value, "throw")

IsSystem(m) == m.role = "system"

IsNotSystem(m) == m.role # "system"

\* the text or tool name a message of the pool carries, and the one a
\* mapped content entry carries
CarriedBy(m) ==
  IF m.role = "tool" THEN m.content[1].toolName ELSE m.content[1].text

CarriedByContent(c) ==
  IF Has(c.parts[1], "functionResponse")
  THEN c.parts[1].functionResponse.name
  ELSE c.parts[1].text

\* C19: when mapPromptToGeminiFormat returns, contents has one entry for
\* each message that is not a system message, in the order of the messages:
\* the i-th entry has role 'model' when the i-th such message is an
\* assistant message and 'user' when it is a user or tool message, and
\* carries that message's text or tool name.
C19_OneContentPerMessage ==
  MapReturned =>
    LET ns == SelectSeq(mapInput.prompt, IsNotSystem)
        cs == mapOutput.value.contents
    IN /\ Len(cs) = Len(ns)
       /\ \A i \in 1..Len(ns) :
            /\ cs[i].role = (IF ns[i].role = "assistant" THEN "model" ELSE "user")
            /\ CarriedByContent(cs[i]) = CarriedBy(ns[i])

\* a prompt of MaxMessages messages, one of them a system message and an
\* assistant message among the others, was mapped: contents has one entry
\* less than the prompt has messages, with a 'model' entry before a 'user'
\* entry
C19_Witness ==
  /\ MapReturned
  /\ Len(mapInput.prompt) = MaxMessages
  /\ \E i \in 1..Len(mapInput.prompt) : IsSystem(mapInput.prompt[i])
  /\ Len(mapOutput.value.contents) = MaxMessages - 1
  /\ mapOutput.value.contents[1].role = "model"
  /\ mapOutput.value.contents[2].role = "user"

\* C20: when mapPromptToGeminiFormat returns, systemInstruction is absent
\* for a prompt without system message, and else holds the text of the last
\* system message of the prompt and nothing of the earlier ones.
C20_LastSystemMessageWins ==
  MapReturned =>
    LET sys == SelectSeq(mapInput.prompt, IsSystem)
    IN IF sys = <<>>
       THEN ~Has(mapOutput.value, "systemInstruction")
       ELSE /\ Has(mapOutput.value, "systemInstruction")
            /\ mapOutput.value.systemInstruction.parts
                 = <<[text |-> Last(sys).content]>>

\* two different system messages with another message between them were
\* mapped, and the instruction is the text of the later one
C20_Witness ==
  /\ MapReturned
  /\ Len(mapInput.prompt) >= 3
  /\ IsSystem(mapInput.prompt[1])
  /\ IsNotSystem(mapInput.prompt[2])
  /\ IsSystem(mapInput.prompt[3])
  /\ mapInput.prompt[1].content # mapInput.prompt[3].content
  /\ Has(mapOutput.value, "systemInstruction")
  /\ mapOutput.value.systemInstruction.parts[1].text = mapInput.prompt[3].content

\* ------------------------------------------------------------------------
\* Claims about the generation config
\* ------------------------------------------------------------------------

\* the request of the current call was built and handed to the backend
RequestSent == request # EmptyObj

IsJsonMode == Has(options, "responseFormat") /\ options.responseFormat.type = "json"

\* C21: for doGenerate and doStream alike, once the request is built: a json
\* response format without schema gives exactly one warning of type
\* 'unsupported' for feature 'responseFormat', responseMimeType text/plain
\* and no responseJsonSchema; a json format with a schema gives no warning,
\* application/json and the schema itself; every other format (none, text)
\* gives text/plain, no schema and no warning.
C21_ResponseFormatPolicy ==
  RequestSent =>
    IF IsJsonMode /\ ~Has(options.responseFormat, "schema")
    THEN /\ Len(warnings) = 1
         /\ warnings[1].type = "unsupported"
         /\ warnings[1].feature = "responseFormat"
         /\ request.config.responseMimeType = "text/plain"
         /\ ~Has(request.config, "responseJsonSchema")
    ELSE IF IsJsonMode
    THEN /\ warnings = <<>>
         /\ request.config.responseMimeType = "application/json"
         /\ Has(request.config, "responseJsonSchema")
         /\ request.config.responseJsonSchema = options.responseFormat.schema
    ELSE /\ warnings = <<>>
         /\ request.config.responseMimeType = "text/plain"
         /\ ~Has(request.config, "responseJsonSchema")

\* a doStream call in json mode without schema has sent its request as
\* text/plain and its stream-start carries the one warning
C21_Witness ==
  /\ op = "stream"
  /\ RequestSent
  /\ IsJsonMode
  /\ ~Has(options.responseFormat, "schema")
  /\ request.config.responseMimeType = "text/plain"
  /\ Len(events) >= 1
  /\ events[1].type = "stream-start"
  /\ Len(events[1].warnings) = 1

\* the model-level and the call-time thinkingConfig, {} when there is none
SettingsThinking ==
  IF Has(settings, "thinkingConfig") THEN settings.thinkingConfig ELSE EmptyObj

OptionsThinking ==
  IF Has(options, "thinkingConfig") THEN options.thinkingConfig ELSE EmptyObj

\* the thinkingConfig of the request, {} when the request has none
SentThinking ==
  IF Has(request.config, "thinkingConfig")
  THEN request.config.thinkingConfig ELSE EmptyObj

IsLevel(o) ==
  Has(o, "thinkingLevel") /\ ToUpperCase(o.thinkingLevel) \in ThinkingLevel

\* the call-time value of field f, else the model-level one, else none
MergedField(f) ==
  IF Has(OptionsThinking, f) THEN (f :> OptionsThinking[f])
  ELSE IF Has(SettingsThinking, f) THEN (f :> SettingsThinking[f])
  ELSE EmptyObj

\* C24: the fields of the thinkingConfig sent to the backend are: for
\* thinkingBudget and includeThoughts the call-time value, else the
\* model-level value, else none; for thinkingLevel the enum value of the
\* call-time level when that matches an enum value case-insensitively, else
\* the enum value of the model-level level (an invalid call-time level is
\* dropped from the override alone), else none.
C24_ThinkingConfigMerge ==
  RequestSent =>
    SentThinking =
      (IF IsLevel(OptionsThinking)
       THEN [thinkingLevel |-> ToUpperCase(OptionsThinking.thinkingLevel)]
       ELSE IF IsLevel(SettingsThinking)
       THEN [thinkingLevel |-> ToUpperCase(SettingsThinking.thinkingLevel)]
       ELSE EmptyObj)
      @@ MergedField("thinkingBudget")
      @@ MergedField("includeThoughts")

\* defaults {thinkingLevel: 'low', thinkingBudget: 512} with the override
\* {thinkingLevel: 'hihg', thinkingBudget: 0} were sent as level LOW of the
\* defaults and budget 0 of the override
C24_Witness ==
  /\ RequestSent
  /\ SettingsThinking = [thinkingLevel |-> "low", thinkingBudget |-> 512]
  /\ OptionsThinking = [thinkingLevel |-> "hihg", thinkingBudget |-> 0]
  /\ SentThinking = [thinkingLevel |-> "LOW", thinkingBudget |-> 0]

\* C25: a request whose merged thinkingConfig has no field left carries no
\* thinkingConfig at all: the config of a request never holds an empty
\* thinkingConfig object, whatever the defaults and the overrides are.
C25_NoEmptyThinkingConfig ==
  RequestSent =>
    (Has(request.config, "thinkingConfig")
       => request.config.thinkingConfig # EmptyObj)

SamplingParameters ==
  {"temperature", "topP", "topK", "maxOutputTokens", "stopSequences"}

\* C26: each of temperature, topP, topK, maxOutputTokens and stopSequences
\* of the request is the call-time value when the options give one (0
\* included), else the model-level setting, else absent.
C26_SamplingPrecedence ==
  RequestSent =>
    \A k \in SamplingParameters :
      IF Has(options, k)
      THEN Has(request.config, k) /\ request.config[k] = options[k]
      ELSE IF Has(settings, k)
      THEN Has(request.config, k) /\ request.config[k] = settings[k]
      ELSE ~Has(request.config, k)

\* ------------------------------------------------------------------------
\* Claims about the finish reason and the usage
\* ------------------------------------------------------------------------

FinishReasonTable ==
  [r \in {"STOP", "MAX_TOKENS", "SAFETY", "RECITATION", "OTHER"} |->
     CASE r = "STOP" -> "stop"
       [] r = "MAX_TOKENS" -> "length"
       [] r \in {"SAFETY", "RECITATION"} -> "content-filter"
       [] r = "OTHER" -> "other"]

\* what the table gives for a candidate: raw is its finishReason, absent
\* when that is undefined
TableEntry(candidate) ==
  IF Has(candidate, "finishReason")
  THEN [unified |-> IF candidate.finishReason \in DOMAIN FinishReasonTable
                    THEN FinishReasonTable[candidate.finishReason]
                    ELSE "other",
        raw |-> candidate.finishReason]
  ELSE [unified |-> "other"]

\* C27: the finish reason that mapGeminiFinishReason gives, seen in the
\* result of doGenerate and in the finish part of a stream without function
\* call, is that of the table: STOP stop, MAX_TOKENS length, SAFETY and
\* RECITATION content-filter, OTHER and every other or undefined value
\* other, with the backend's value as raw.
C27_FinishReasonTable ==
  /\ (pc = "returned" /\ ~HoldsFunctionCall(lastResponse.response)) =>
       result.finishReason = TableEntry(lastResponse.response)
  /\ (JustFinished /\ ~fcSeen) =>
       Last(events).finishReason = TableEntry(lastSignal)

\* doGenerate has returned a text response whose finishReason RECITATION
\* became content-filter
C27_Witness ==
  /\ pc = "returned"
  /\ ~HoldsFunctionCall(lastResponse.response)
  /\ Has(lastResponse.response, "finishReason")
  /\ lastResponse.response.finishReason = "RECITATION"
  /\ result.finishReason = [unified |-> "content-filter", raw |-> "RECITATION"]

\* the usage total u was reported for the count k of the usage metadata um
\* ({} when the backend sent none): undefined when k is omitted
TotalOrUnknown(u, um, k) ==
  IF Has(um, k) THEN Has(u, "total") /\ u.total = um[k] ELSE ~Has(u, "total")

UsageOrUnknown(usage, um) ==
  /\ TotalOrUnknown(usage.inputTokens, um, "promptTokenCount")
  /\ TotalOrUnknown(usage.outputTokens, um, "candidatesTokenCount")

\* C28: when the backend omits the usage metadata or one of its token
\* counts, the corresponding total of the usage in the result of doGenerate
\* and in the finish part of the stream is undefined, not zero.
C28_OmittedUsageIsUnknown ==
  /\ pc = "returned" =>
       UsageOrUnknown(result.usage,
                      IF Has(lastResponse.response, "usageMetadata")
                      THEN lastResponse.response.usageMetadata ELSE EmptyObj)
  /\ JustFinished => UsageOrUnknown(Last(events).usage, usageSeen)

\* ------------------------------------------------------------------------
\* Claims about the schema cleaner
\* ------------------------------------------------------------------------

\* C22: cleaning is idempotent: the result of cleaning the cleaned schema
\* equals the result of the first cleaning.
C22_CleanIsIdempotent ==
  Len(cleanings) >= 2 => cleanings[2] = cleanings[1]

\* a schema that the first cleaning changed (a root with $schema and
\* definitions under properties of a typeless object) was cleaned twice
C22_Witness ==
  /\ Len(cleanings) = 2
  /\ cleanings[1] # schema
  /\ Has(schema.obj, "properties")
  /\ ~Has(schema.obj, "type")
  /\ Has(schema.obj.properties.obj.name.obj, "definitions")
  /\ cleanings[1].obj.type = Str("object")
  /\ ~Has(cleanings[1].obj.properties.obj.name.obj, "definitions")

\* some object inside the JSON value v, at any depth, has one of the keys
RECURSIVE HoldsKey(_, _)
HoldsKey(v, keys) ==
  IF IsObj(v)
  THEN \/ DOMAIN v.obj \cap keys # {}
       \/ \E k \in DOMAIN v.obj : HoldsKey(v.obj[k], keys)
  ELSE IF IsArr(v)
  THEN \E i \in 1..Len(v.arr) : HoldsKey(v.arr[i], keys)
  ELSE FALSE

\* C23: the output of the cleaner holds none of the keys $schema, $ref,
\* $defs, definitions at any depth, whichever keyword the nested schema is
\* under.
C23_NoReferenceKeysAtAnyDepth ==
  Len(cleanings) >= 1 => ~HoldsKey(cleanings[1], DeletedKeys)

\* ------------------------------------------------------------------------
\* Claims about the parts of a message
\* ------------------------------------------------------------------------

\* the one message given to the mapper, and whether the mapper was called
TheMessage == mapInput.prompt[1]

MapCalled == mapOutput # EmptyObj

IsToolResult(part) == part.type = "tool-result"

\* the response r is the one of the tool-result output: the object itself
\* for a json or error-json output that is a plain object, else an object
\* with the single key result, which holds the value of a text, error-text,
\* json or error-json output
ResponseOf(r, output) ==
  IF output.type \in {"json", "error-json"} /\ output.value.json = "object"
  THEN r = output.value.v
  ELSE /\ DOMAIN r = {"result"}
       /\ output.type \in {"text", "error-text", "json", "error-json"}
            => r.result = output.value

\* C29: the mapped parts of a tool message are one functionResponse per
\* tool-result part, in the order of the tool-result parts and with their
\* tool names, each with an object-shaped response: a plain JSON object as
\* it is, everything else under the single key result.
C29_OneFunctionResponsePerToolResult ==
  (MapCalled /\ TheMessage.role = "tool") =>
    LET results == SelectSeq(TheMessage.content, IsToolResult)
        parts == mapOutput.value.contents[1].parts
    IN /\ Len(parts) = Len(results)
       /\ \A i \in 1..Len(results) :
            /\ DOMAIN parts[i] = {"functionResponse"}
            /\ parts[i].functionResponse.name = results[i].toolName
            /\ ResponseOf(parts[i].functionResponse.response, results[i].output)

\* a tool message with the JSON number 72 and then the JSON object
\* {temperature: 72} was mapped to {result: 72} and {temperature: 72}
C29_Witness ==
  /\ MapCalled
  /\ TheMessage.role = "tool"
  /\ Len(TheMessage.content) = 2
  /\ TheMessage.content[1].toolName = "jsonNumber"
  /\ TheMessage.content[2].toolName = "jsonObject"
  /\ mapOutput.value.contents[1].parts[1].functionResponse.response
       = [result |-> [json |-> "number", v |-> 72]]
  /\ mapOutput.value.contents[1].parts[2].functionResponse.response
       = [temperature |-> 72]

\* the media type of a file part is outside image/*, audio/*, video/* and
\* application/pdf
IsUnsupportedFile(part) ==
  /\ part.type = "file"
  /\ MediaTypeOf(part)[1] \notin {"image", "audio", "video"}
  /\ MediaTypeOf(part) # <<"application", "pdf">>

\* C30: the mapping of a user or assistant message that holds a file part
\* of an unsupported media type fails, with an error that names the media
\* type of such a part; the part is never left out of a mapping that
\* succeeds.
C30_UnsupportedFileFails ==
  (/\ MapCalled
   /\ TheMessage.role \in {"user", "assistant"}
   /\ \E i \in 1..Len(TheMessage.content) : IsUnsupportedFile(TheMessage.content[i]))
  => /\ Has(mapOutput.value, "throw")
     /\ \E i \in 1..Len(TheMessage.content) :
          /\ IsUnsupportedFile(TheMessage.content[i])
          /\ mapOutput.value.throw.message
               = <<"Unsupported file type: ">>
                 \o MediaTypeText(MediaTypeOf(TheMessage.content[i]))

\* ------------------------------------------------------------------------
\* Requests after a failed initialization
\* ------------------------------------------------------------------------

\* C38: once the initialization of the instance has failed, the initializer
\* has been called once and is not called again, and no client appears;
\* the request made afterwards (doGenerate or doStream) waits for the same
\* rejected promise and rejects with the initialization error, without a
\* backend call and without a stream part.
C38_FailedInitIsMemoized ==
  initPromise = "rejected" =>
    /\ initCalls = 1
    /\ ~contentGenerator
    /\ backendCalls = 0
    /\ events = <<>>
    /\ pc \in {"idle", "awaitInit", "rejected"}
    /\ pc = "rejected" => IsInitError(error)

\* after the earlier requests failed at the initialization, a doStream
\* request made on the instance has rejected with the initialization error
C38_Witness ==
  /\ initPromise = "rejected"
  /\ initCalls = 1
  /\ \A r \in Requests : requests[r].pc = "rejected"
  /\ op = "stream"
  /\ pc = "rejected"
  /\ IsInitError(error)

\* ------------------------------------------------------------------------
\* The abort signal while generateContentStream is in flight
\* ------------------------------------------------------------------------

\* the signal was triggered after doStream called generateContentStream,
\* and that call is over
StreamAbortedInFlight ==
  /\ op = "stream"
  /\ abortedAt = "awaitBackend"
  /\ pc # "awaitBackend"

\* C40: when the abort signal is triggered while doStream awaits
\* generateContentStream, doStream rejects once that call is over: with the
\* AbortError unless the call itself failed; no stream is returned and no
\* part, not even stream-start, is enqueued.
C40_StreamRechecksAbort ==
  StreamAbortedInFlight =>
    /\ pc = "rejected"
    /\ events = <<>>
    /\ error # mapGeminiError(BackendFailure) => IsAbortError(error)

\* doStream was aborted while the backend call was in flight and rejected
\* with the AbortError after its one backend call
C40_Witness ==
  /\ StreamAbortedInFlight
  /\ backendCalls = 1
  /\ pc = "rejected"
  /\ IsAbortError(error)
  /\ events = <<>>

\* ------------------------------------------------------------------------
\* A prompt that cannot be mapped
\* ------------------------------------------------------------------------

\* the prompt of the request is one that mapPromptToGeminiFormat throws for
MappingFails == op # "none" /\ Has(mapPromptToGeminiFormat(options), "throw")

\* C39: a doGenerate or doStream whose prompt cannot be mapped (unsupported
\* file type, URL payload, unknown payload shape) never calls the backend,
\* never enqueues a stream part and returns nothing, with or without the
\* abort signal: it rejects, and with the mapping error whenever the client
\* was initialized.
C39_MappingFailureBeforeBackend ==
  MappingFails =>
    /\ backendCalls = 0
    /\ events = <<>>
    /\ result = EmptyObj
    /\ pc \in {"awaitInit", "rejected"}
    /\ (pc = "rejected" /\ contentGenerator)
         => error = mapGeminiError(mapPromptToGeminiFormat(options).throw)

\* an aborted doStream with a file of unknown payload shape has rejected
\* with the mapping error
C39_Witness ==
  /\ MappingFails
  /\ op = "stream"
  /\ aborted
  /\ options.prompt = UnknownPayloadPrompt
  /\ pc = "rejected"
  /\ error.message = <<"Unsupported file format">>
  /\ backendCalls = 0

\* ------------------------------------------------------------------------
\* The parts of a response and what the caller gets for them
\* ------------------------------------------------------------------------

\* the request of SpecContent, the parts enqueued on its stream and the
\* chunks the backend gave it
TheRequest == requests[1]
PartEvents == TheRequest.st.events
TheChunks == TheRequest.chunks

Generated == TheRequest.pc = "returned" /\ TheRequest.op = "generate"
Streaming == TheRequest.op = "stream" /\ TheRequest.pc \in {"iterating", "closed"}

\* the parts of the chunks, in the order the backend gave them
RECURSIVE PartsOfChunks(_)
PartsOfChunks(chunks) ==
  IF chunks = <<>> THEN <<>>
  ELSE Head(chunks).parts \o PartsOfChunks(Tail(chunks))

IsFunctionCallPart(part) == Has(part, "functionCall")
IsTextPart(part) == Has(part, "text")
IsToolCall(e) == e.type = "tool-call"

\* the continuation token of a backend part, of a tool call of the prompt
\* and of a tool-call part or item: a one-element sequence, empty when there
\* is no token (an empty string is no token)
TokenOfBackendPart(part) ==
  IF Has(part, "thoughtSignature") /\ part.thoughtSignature # ""
  THEN <<part.thoughtSignature>> ELSE <<>>

TokenOfPromptPart(part) ==
  IF /\ Has(part, "providerOptions")
     /\ Has(part.providerOptions, "gemini-cli")
     /\ Has(part.providerOptions["gemini-cli"], "thoughtSignature")
     /\ part.providerOptions["gemini-cli"].thoughtSignature # ""
  THEN <<part.providerOptions["gemini-cli"].thoughtSignature>> ELSE <<>>

\* the field of a tool-call part or item is absent, or holds a token
TokenOfToolCall(e) ==
  IF Has(e, "providerMetadata")
  THEN <<e.providerMetadata["gemini-cli"].thoughtSignature>> ELSE <<>>

\* the tool calls handed to the caller carry the tokens of the function call
\* parts, in order; a field that is there holds a non-empty token
TokensCarried(toolCalls, parts) ==
  /\ Len(toolCalls) = Len(parts)
  /\ \A i \in 1..Len(parts) :
       /\ TokenOfToolCall(toolCalls[i]) = TokenOfBackendPart(parts[i])
       /\ TokenOfToolCall(toolCalls[i]) # <<"">>

\* C31: the thoughtSignature is carried unchanged when there is one, and the
\* field is absent (not null, not empty) when there is none: on the function
\* call part mapped from an assistant tool call, on the tool-call items of a
\* doGenerate result and on the tool-call parts of a stream.
C31_TokenCarriedOrAbsent ==
  /\ MapCalled =>
       LET calls == mapInput.prompt[2].content
           parts == mapOutput.value.contents[2].parts
       IN /\ Len(parts) = Len(calls)
          /\ \A i \in 1..Len(calls) :
               /\ Has(parts[i], "functionCall")
               /\ IF TokenOfPromptPart(calls[i]) = <<>>
                  THEN ~Has(parts[i], "thoughtSignature")
                  ELSE /\ Has(parts[i], "thoughtSignature")
                       /\ <<parts[i].thoughtSignature>> = TokenOfPromptPart(calls[i])
  /\ Generated =>
       TokensCarried(SelectSeq(TheRequest.result.content, IsToolCall),
                     SelectSeq(TheChunks[1].parts, IsFunctionCallPart))
  /\ Streaming =>
       TokensCarried(SelectSeq(PartEvents, IsToolCall),
                     SelectSeq(PartsOfChunks(TheChunks), IsFunctionCallPart))

\* C31 witness: the mapper was given a tool call without a signature and
\* then one with the signature "sig-1", and a stream got a chunk with a text
\* and a signed function call after a chunk with a function call whose
\* signature is empty: the signed ones carry "sig-1", the others no field
C31_Witness ==
  /\ MapCalled
  /\ mapInput.prompt[2].content = <<NoSignatureToolCall, SignedToolCall>>
  /\ ~Has(mapOutput.value.contents[2].parts[1], "thoughtSignature")
  /\ mapOutput.value.contents[2].parts[2].thoughtSignature = "sig-1"
  /\ Streaming
  /\ PartsOfChunks(TheChunks) =
       <<EmptySignatureCall, WeatherCall, HelloPart, SignedCall>>
  /\ LET toolCalls == SelectSeq(PartEvents, IsToolCall)
     IN /\ Len(toolCalls) = 3
        /\ ~Has(toolCalls[1], "providerMetadata")
        /\ ~Has(toolCalls[2], "providerMetadata")
        /\ toolCalls[3].providerMetadata["gemini-cli"].thoughtSignature = "sig-1"

\* the name and the serialized arguments a tool call has for a function
\* call part
ToolCallFollows(e, part) ==
  /\ e.type = "tool-call"
  /\ e.toolName = part.functionCall.name
  /\ e.input = JSONstringify(IF Has(part.functionCall, "args")
                             THEN part.functionCall.args ELSE EmptyObj)

\* a part that holds a text that is not empty, or a function call
HoldsContent(part) ==
  \/ IsFunctionCallPart(part)
  \/ IsTextPart(part) /\ part.text # ""

\* the content of a doGenerate result follows the given parts one to one
ContentFollows(content, parts) ==
  /\ Len(content) = Len(parts)
  /\ \A i \in 1..Len(parts) :
       IF IsTextPart(parts[i])
       THEN content[i] = [type |-> "text", text |-> parts[i].text]
       ELSE /\ ToolCallFollows(content[i], parts[i])
            /\ \A j \in 1..Len(parts) :
                 (j # i /\ content[j].type = "tool-call")
                   => content[j].toolCallId # content[i].toolCallId

\* C33 as claimed: the content of a doGenerate result follows the parts of
\* the response in order, one text item for each text part, one tool-call
\* item with its own call id for each function call part.
C33_ContentFollowsParts ==
  Generated => ContentFollows(TheRequest.result.content, TheChunks[1].parts)

\* C33: the content of a doGenerate result follows, in order, the parts of
\* the response that hold a function call or a text that is not empty: one
\* text item with the same text for such a text part, one tool-call item
\* with a call id of its own, the function name and the serialized arguments
\* ('{}' when there are none) for a function call part; a text part whose
\* text is empty gives no item, and a response with no parts gives an empty
\* content.
C33_ContentFollowsNonEmptyParts ==
  Generated =>
    ContentFollows(TheRequest.result.content,
                   SelectSeq(TheChunks[1].parts, HoldsContent))

\* C33 witness: the response held a function call without arguments and a
\* text; the content is the tool call with input '{}' and the text
C33_Witness ==
  /\ Generated
  /\ TheChunks[1].parts = <<NoArgsCall, WorldPart>>
  /\ Len(TheRequest.result.content) = 2
  /\ TheRequest.result.content[1].type = "tool-call"
  /\ TheRequest.result.content[1].input = JSONstringify(EmptyObj)
  /\ TheRequest.result.content[2] = [type |-> "text", text |-> ", world!"]

\* the text-delta and tool-call parts of a stream
IsContentEvent(e) == e.type \in {"text-delta", "tool-call"}

\* the text-delta and tool-call parts of the stream follow the given backend
\* parts one to one
EventsFollow(parts) ==
  LET content == SelectSeq(PartEvents, IsContentEvent)
  IN /\ Len(content) = Len(parts)
     /\ \A i \in 1..Len(parts) :
          IF IsTextPart(parts[i])
          THEN content[i].type = "text-delta" /\ content[i].delta = parts[i].text
          ELSE ToolCallFollows(content[i], parts[i])

\* C35 as claimed: the text-delta and tool-call parts of a stream follow the
\* parts of the chunks in the order of arrival, one text-delta for each text
\* part and one tool-call for each function call part.
C35_EventsFollowParts ==
  Streaming => EventsFollow(PartsOfChunks(TheChunks))

\* C35: the text-delta and tool-call parts of a stream follow, in the order
\* of the chunks and of the parts of each chunk, the backend parts that hold
\* a function call or a text that is not empty: one text-delta with the text
\* of such a text part, one tool-call for a function call part, none
\* reordered, merged or split; a text part whose text is empty gives no part.
C35_EventsFollowNonEmptyParts ==
  Streaming => EventsFollow(SelectSeq(PartsOfChunks(TheChunks), HoldsContent))

\* C35 witness: two chunks, a function call and then a text in the first, a
\* text and then a function call in the second: four parts in that order
C35_Witness ==
  /\ Streaming
  /\ PartsOfChunks(TheChunks) = <<NoArgsCall, WorldPart, HelloPart, WeatherCall>>
  /\ LET content == SelectSeq(PartEvents, IsContentEvent)
     IN /\ Len(content) = 4
        /\ content[1].type = "tool-call"
        /\ content[2].type = "text-delta" /\ content[2].delta = ", world!"
        /\ content[3].type = "text-delta" /\ content[3].delta = "Hello"
        /\ content[4].type = "tool-call"

\* the text blocks open after the first n parts of the stream: text-start
\* enqueued, no text-end for the id enqueued after it
OpenAfter(n) ==
  { PartEvents[j].id : j \in
      { i \in 1..n :
          /\ PartEvents[i].type = "text-start"
          /\ \A k \in (i + 1)..n :
               ~(PartEvents[k].type = "text-end"
                   /\ PartEvents[k].id = PartEvents[i].id) } }

\* the last chunk the stream got carried the terminal signal
TerminalChunkArrived ==
  /\ Streaming
  /\ TheChunks # <<>>
  /\ Has(Last(TheChunks), "finishReason")

\* the parts of the stream end with those of the terminal chunk: the
\* text-delta and tool-call parts of all the chunks, then text-end exactly
\* when a text block is open, then response-metadata, then finish
TerminalOrder ==
  LET n == Len(PartEvents)
      hasEnd == n >= 3 /\ PartEvents[n - 2].type = "text-end"
      m == IF hasEnd THEN n - 3 ELSE n - 2
  IN /\ n >= 3
     /\ PartEvents[n].type = "finish"
     /\ PartEvents[n - 1].type = "response-metadata"
     /\ Len(SelectSeq(SubSeq(PartEvents, 1, m), IsContentEvent))
          = Len(SelectSeq(PartsOfChunks(TheChunks), HoldsContent))
     /\ hasEnd <=> OpenAfter(m) # {}
     /\ hasEnd => PartEvents[n - 2].id \in OpenAfter(m)

\* C34: on a chunk with the terminal signal the stream gets the parts for
\* the chunk's own parts, then text-end if and only if a text block is open,
\* then response-metadata, then finish; a stream that got no text part has
\* neither text-start nor text-end.
C34_TerminalChunkOrder ==
  /\ TerminalChunkArrived => TerminalOrder
  /\ (Streaming /\ SelectSeq(PartsOfChunks(TheChunks), IsTextPart) = <<>>) =>
       \A i \in 1..Len(PartEvents) :
         PartEvents[i].type \notin {"text-start", "text-end"}

\* no finish part lies at the places i..j of the stream
NoFinishBetween(i, j) ==
  \A k \in i..j : PartEvents[k].type # "finish"

\* the tool-call part at place i is that of a function call part that
\* arrived while a text block was open: a text block was opened before it and
\* no terminal signal has come
ToolCallInOpenBlock(i) ==
  /\ PartEvents[i].type = "tool-call"
  /\ \E k \in 1..(i - 1) : PartEvents[k].type = "text-start"
  /\ NoFinishBetween(1, i)

\* C37: a function call part that arrives while a text block is open gives
\* a tool-call part and leaves the block open: no text-end comes because of
\* the tool call (the next text-end is that of the terminal signal, followed
\* by response-metadata), no other block is opened, and the text parts that
\* arrive before the terminal signal are text-delta parts of the same block.
C37_ToolCallLeavesBlockOpen ==
  Streaming =>
    \A i \in 1..Len(PartEvents) :
      ToolCallInOpenBlock(i) =>
        /\ OpenAfter(i) # {}
        /\ PartEvents[i - 1].type # "text-end"
        /\ \A j \in (i + 1)..Len(PartEvents) :
             NoFinishBetween(i, j) =>
               /\ PartEvents[j].type # "text-start"
               /\ PartEvents[j].type = "text-delta"
                    => PartEvents[j].id \in OpenAfter(i)
               /\ PartEvents[j].type = "text-end"
                    => /\ j < Len(PartEvents)
                       /\ PartEvents[j + 1].type = "response-metadata"

\* C37 witness: a text, a function call and a text arrived, then the
\* terminal signal: one block, opened before the tool call and closed by the
\* terminal chunk after the second text-delta
C37_Witness ==
  /\ Streaming
  /\ Len(TheChunks) = 2
  /\ TheChunks[1].parts = <<HelloPart, WeatherCall>>
  /\ TheChunks[2].parts = <<WorldPart>>
  /\ Has(TheChunks[2], "finishReason")
  /\ Len(PartEvents) = 8
  /\ PartEvents[2].type = "text-start"
  /\ PartEvents[3].type = "text-delta"
  /\ PartEvents[4].type = "tool-call"
  /\ PartEvents[5] = [type |-> "text-delta", id |-> PartEvents[2].id,
                      delta |-> ", world!"]
  /\ PartEvents[6] = [type |-> "text-end", id |-> PartEvents[2].id]

\* ------------------------------------------------------------------------
\* A backend sequence that raises
\* ------------------------------------------------------------------------

\* the backend's sequence raised after it delivered a chunk, and a read of
\* the consumer has failed
ReadFailedAfterChunk ==
  /\ pc = "errored"
  /\ error = mapGeminiError(BackendFailure)
  /\ pulled >= 1
  /\ reading = "failed"

\* C36: when the backend's sequence raises after it delivered a chunk, a read
\* of the consumer fails only after the consumer has received the parts
\* enqueued before the failure, stream-start first: none of them is lost,
\* whatever the order of the steps of the transform and of the consumer.
C36_PartsBeforeFailureDelivered ==
  ReadFailedAfterChunk =>
    /\ received >= 1
    /\ received = Len(events)

\* ------------------------------------------------------------------------
\* Tools whose schema cannot be converted
\* ------------------------------------------------------------------------

\* no converter is available: neither z.toJSONSchema nor zod-to-json-schema
\* gives a schema
NoConverterAvailable ==
  /\ converters.toJSONSchema # "works"
  /\ converters.zodToJsonSchema # "works"

\* the function tools of the call whose inputSchema is a Zod schema
FunctionTools == SelectSeq(options.tools, IsFunctionTool)
ZodToolPlaces ==
  {i \in 1..Len(FunctionTools) : isZodSchema(FunctionTools[i].inputSchema)}

\* the call has a Zod tool and the installation no converter for it
FallbackTaken ==
  /\ Has(options, "tools")
  /\ ZodToolPlaces # {}
  /\ NoConverterAvailable

\* a list of warnings holds an entry that is not the JSON-without-schema one
HoldsFallbackWarning(w) ==
  \E i \in 1..Len(w) : w[i] # JsonWithoutSchemaWarning

\* C32: when a tool's Zod schema cannot be converted because no converter
\* is available, the parameters of the tool given to the backend are the
\* bare {type: 'object'}, the request is not rejected for it, and the
\* warnings of the result (of doGenerate, and of stream-start) hold an entry
\* for the fallback.
C32_FallbackGivesWarning ==
  FallbackTaken =>
    /\ RequestSent =>
         \A i \in ZodToolPlaces :
           request.config.tools[1].functionDeclarations[i].parameters
             = BareObjectSchema
    /\ pc # "rejected"
    /\ pc = "returned" => HoldsFallbackWarning(result.warnings)
    /\ (StreamExists /\ events # <<>>) => HoldsFallbackWarning(events[1].warnings)

====
